---- MODULE Spec2Model ----
(***************************************************************************)
(* Verification model of the iNaturalist -> Supabase sync pipeline of      *)
(* ecology-bioblitz-scoring.  The repository holds several generations of  *)
(* ingest.mjs; each generation is modelled as its own state machine with   *)
(* its own specification over a shared set of variables:                   *)
(*                                                                         *)
(*   SpecUpsert  sbUpsert with automatic batch shrinking (unnamed/part_010) *)
(*   SpecFetch   the four upstream fetchers and their retry loops          *)
(*   SpecJob     the job_metadata-checkpoint ingest (unnamed/part_005 and  *)
(*               the script in sql/assert_security_and_perf_ok.sql)        *)
(*   SpecReplay  the keyed merge-on-conflict write, applied twice          *)
(*   SpecLedger  the ledger-based ingest with deletion reconciliation      *)
(*               (the script in sql/diagnostic_score_entries_schema.sql)   *)
(*   SpecPager   the three paging loops over a listing that stands still   *)
(*   SpecScore   linking, novelty ranking, scoreAll and writeScores        *)
(*   SpecMvp     the SQL function compute_scores_mvp, called repeatedly    *)
(*   SpecExit    the drivers: errors of the steps and the exit status      *)
(*   SpecPace    the sleeps between consecutive upstream requests          *)
(*   SpecBoot    configuration checks before the first request or write    *)
(*   SpecNorm    the mappers from an upstream record to a stored row       *)
(*   SpecLogin   safe_upsert_user_login on the table user_login            *)
(*   SpecResume  runs of main of unnamed/part_010 and their resume point   *)
(*   SpecScroll  iNatScroll over an upstream that gains and loses records  *)
(*   SpecAssign  the order of the awaited calls of processAssignment       *)
(*                                                                         *)
(* SpecUpsertFair is SpecUpsert under weak fairness; SpecPagerLive and     *)
(* SpecScoreEdited add to SpecPager and SpecScore an edit made by others.  *)
(*                                                                         *)
(* A specification leaves the variables of the other machines unchanged.   *)
(***************************************************************************)
EXTENDS Integers, Sequences, FiniteSets, TLC

VARIABLES
    \* ---- sbUpsert and the chunk loop of main (unnamed/part_010) ----
    uBatchSize,     \* UPSERT_BATCH_SIZE, read from the environment at start
    uRows,          \* rows.length of the page being written by main
    uI,             \* main's chunk loop index i
    uPc,            \* "loop" | "call" | "done" | "failed"
    uStack,         \* activation records of the recursive sbUpsert call
    uWritten,       \* row numbers of the page the store has accepted
    uTotalUpserted, \* main's totalUpserted
    uCount,         \* count returned by the last completed top-level sbUpsert
    uLog,           \* the first MaxLog requests sent: <<lo, hi, status class>>
    uFaults,        \* non-success responses injected so far
    uThrown         \* sub-batches <<lo, hi, batchSize, attempt>> whose call threw

VARIABLES
    \* ---- one page request of an upstream fetcher ----
    fVariant,       \* which fetcher runs
    fAttempt,       \* its loop variable attempt
    fRequests,      \* requests issued for the page so far
    fOutcome,       \* "running" | "json" | "undefined" | "thrown"
    fLast,          \* status of the last response (-1: none yet)
    fOnlyRetryable, \* every response so far was a 429 or a 5xx
    fUrlHas429      \* the request URL contains the characters 429

VARIABLES
    \* ---- the job_metadata-checkpoint ingest ----
    jVariant,       \* which of the two scripts runs
    jPc,            \* position in main
    jCheckpoint,    \* job_metadata.last_inat_update_utc (0: no row)
    jClock,         \* wall clock
    jStartTime,     \* main's startTime
    jLastUpdate,    \* main's lastUpdate (0: null)
    jUpstream,      \* number of observations upstream returns for the query
    jPage,          \* fetchObservations' page
    jAll,           \* allObservations.length
    jBatchAt,       \* upsertObservations' i
    jStore,         \* observation numbers in the observations table
    jFetchError,    \* this run met a non-success page response
    jUpsertError,   \* this run met an upsert error
    jBefore,        \* jCheckpoint when this run started
    jRuns           \* runs started

VARIABLES
    \* ---- the keyed write applied twice ----
    rVariant,       \* which writer is used
    rBefore,        \* the table before the first application
    rStore,         \* the table: a set of rows
    rLast,          \* the batch applied
    rSnap,          \* the table after the first application
    rReplayed       \* the batch has been applied a second time

VARIABLES
    \* ---- the ledger-based ingest and the upstream it reads ----
    lUpstream,      \* iNaturalist: id -> [state, updated_at, gone_at]
    lNow,           \* upstream clock, seconds since the epoch
    lStore,         \* the observations table: a set of rows
    lLedger,        \* the score_runs table: a sequence of rows
    lRuns,          \* processes started so far
    lMode,          \* INAT_MODE of the running process
    lPc,            \* position in main
    lSince,         \* main's since / sinceIso
    lPage,          \* fetchUpdates' page
    lMaxSeen,       \* fetchUpdates' maxSeen
    lTotalUpserted, \* fetchUpdates' totalUpserted
    lFeedFailed,    \* fetchDeletedIdsSince returned null in this run
    lToDelete,      \* main's deletedIds
    lDeleted,       \* rows this run removed from the observations table
    lLocalWindow,   \* ids stored with updated_at >= since when reconciling
    lUpstreamWindow,\* ids upstream held for the window when reconciling
    lResumeBefore   \* resume point of the ledger when this run started

VARIABLES
    \* ---- the paging loops ----
    pgLoop,         \* "fetchUpdates", "main" (part_010) or "inatObsPager"
    pgPc,           \* "paging", "recordRun", "done" or "failed"
    pgSince,        \* the updated_since of the query
    pgUpstream,     \* the listing, ascending by updated_at
    pgPage,         \* page
    pgRequests,     \* page requests issued
    pgEnded,        \* a page came back short or empty
    pgAfterEnd,     \* a page request was issued after such a page
    pgTotalUpserted,\* totalUpserted / totalFetched
    pgMaxSeen,      \* maxSeen / maxSeenUpdatedAt / maxUpdated
    pgFetched,      \* the records the upstream has returned, in order
    pgLedger        \* the score_runs rows written

VARIABLES
    \* ---- scoring of one assignment (processAssignment of ingest.mjs) ----
    scObs,          \* the mapped observations fetched for the assignment
    scRubric,       \* the rubric of the assignment
    scLinks,        \* the assignment_observations table: a set of rows
    scRows,         \* rows, as loadJoined returned them
    scByStudent,    \* the Map scoreAll returned
    scPrev,         \* the Map scoreAll returned in the invocation before
    scEntries,      \* the score_entries table: a set of rows
    scRuns,         \* invocations of writeScores so far
    scVariant,      \* "upsert": writeScores of lines 261-286, "post": of 685-717
    scOutcomes,     \* what each invocation of writeScores left in the store
    scPc            \* position in processAssignment

VARIABLES
    \* ---- compute_scores_mvp (sql/mvp_item_2_score_entries_obs_FINAL.sql) ----
    mvObservations, \* the observations table: a set of rows
    mvCfg,          \* the row of config_filters
    mvRuns,         \* the number of score_runs rows; the latest has this id
    mvEntries,      \* the score_entries_obs table: a set of rows
    mvFirst,        \* run id -> the run's rows after the first call for it
    mvCalls         \* calls of compute_scores_mvp made

VARIABLES
    \* ---- the drivers and their exit status ----
    xVariant,       \* "main_331" | "driver_782" (ingest.mjs) | "part_005"
    xTodo,          \* steps of the run: assignments, or the calls of main
    xLog,           \* how each step taken so far ended
    xHadError,      \* let hadError of ingest.mjs 332
    xCode           \* the exit status, Null while the process runs

VARIABLES
    \* ---- the waits between consecutive upstream requests ----
    wLoop,          \* "iNatScroll" | "inatObsPager" | "fetchUpdates" | "main_010"
    wThrottle,      \* throttleMs of ingest.mjs, 0 in the loops that have none
    wAttempt,       \* attempt of the retry loop the next request belongs to
    wDelay,         \* let delay of fetchJsonWithRetries
    wRequests,      \* upstream requests sent so far
    wWait,          \* ms slept since the previous request, Null before the first
    wLast,          \* the previous response: status, retry-after, backoff, retried
    wPc             \* "request" | "done" | "thrown"

VARIABLES
    \* ---- start of the process: configuration, validation, first I/O ----
    bVariant,       \* "part_004" | "ingest_9" (ingest.mjs) | "part_010"
    bEnv,           \* which settings the environment holds, and INAT_MODE
    bPc,            \* "boot" | "main" | "stopped" | "done"
    bIo,            \* upstream requests and store reads and writes made so far
    bCode           \* the exit status, Null while the process runs

VARIABLES
    \* ---- normalization of one upstream record ----
    nVariant,       \* "upsertObservations" | "mapObs" | "transformObservation"
    nObs,           \* the upstream record
    nRow,           \* the row the mapper returned, <<>> before it has run
    nBody,          \* the row as JSON.stringify puts it in the request
    nPc             \* "map" | "mapped" | "threw" | "sent"

VARIABLES
    \* ---- the table user_login and the calls of safe_upsert_user_login ----
    ulRows,         \* the table: user_id -> [email, provider]
    ulLast,         \* the last call: its arguments, the table before it, raised
    ulCalls         \* calls made so far

VARIABLES
    \* ---- successive runs of main of unnamed/part_010 on one store ----
    zUpstream,      \* the upstream listing: id -> updated_at, ascending
    zStore,         \* ids of the rows in the observations table
    zBatchSize,     \* UPSERT_BATCH_SIZE
    zSince,         \* updatedSince of the run, Null when there is none
    zPage,          \* page
    zRows,          \* rows of the page being written
    zI,             \* i of the chunk loop
    zStack,         \* sbUpsert activations of the chunk being written
    zThrown,        \* the slices (lo, hi, batchSize) whose sbUpsert threw in this run
    zRuns,          \* processes started
    zPc             \* "start" | "fetch" | "loop" | "call" | "done" | "failed"

VARIABLES
    \* ---- iNatScroll (unnamed/part_004) and the upstream it scrolls ----
    sUpstream,      \* ids of the observations the base parameters select
    sNextId,        \* the id the next created observation gets
    sIdBelow,       \* idBelow, 0 for null
    sSent,          \* id_below of the requests made, 0 where it was not set
    sPages,         \* the pages received, in order
    sPc             \* "scrolling" | "done" | "failed"

VARIABLES
    \* ---- the awaited calls of one processAssignment (ingest.mjs) ----
    paVariant,      \* "processAssignment_289" | "processAssignment_721"
    paIds,          \* student_identities: "none" | "idOnly" | "login"
    paPagesLeft,    \* non-empty pages the upstream still has
    paLog,          \* the calls that returned, in order
    paPc            \* the call awaited next, "returned" or "thrown"

upsertVars == <<uBatchSize, uRows, uI, uPc, uStack, uWritten, uTotalUpserted,
                uCount, uLog, uFaults, uThrown>>
fetchVars == <<fVariant, fAttempt, fRequests, fOutcome, fLast, fOnlyRetryable,
               fUrlHas429>>
jobVars == <<jVariant, jPc, jCheckpoint, jClock, jStartTime, jLastUpdate,
             jUpstream, jPage, jAll, jBatchAt, jStore, jFetchError,
             jUpsertError, jBefore, jRuns>>
replayVars == <<rVariant, rBefore, rStore, rLast, rSnap, rReplayed>>
ledgerVars == <<lUpstream, lNow, lStore, lLedger, lRuns, lMode, lPc, lSince,
                lPage, lMaxSeen, lTotalUpserted, lFeedFailed, lToDelete,
                lDeleted, lLocalWindow, lUpstreamWindow, lResumeBefore>>
pagerVars == <<pgLoop, pgPc, pgSince, pgUpstream, pgPage, pgRequests, pgEnded,
               pgAfterEnd, pgTotalUpserted, pgMaxSeen, pgFetched, pgLedger>>
scoreVars == <<scObs, scRubric, scLinks, scRows, scByStudent, scPrev,
               scEntries, scRuns, scVariant, scOutcomes, scPc>>
mvpVars == <<mvObservations, mvCfg, mvRuns, mvEntries, mvFirst, mvCalls>>

exitVars == <<xVariant, xTodo, xLog, xHadError, xCode>>

paceVars == <<wLoop, wThrottle, wAttempt, wDelay, wRequests, wWait, wLast, wPc>>

bootVars == <<bVariant, bEnv, bPc, bIo, bCode>>

normVars == <<nVariant, nObs, nRow, nBody, nPc>>

loginVars == <<ulRows, ulLast, ulCalls>>

resumeVars == <<zUpstream, zStore, zBatchSize, zSince, zPage, zRows, zI, zStack, zThrown, zRuns, zPc>>

scrollVars == <<sUpstream, sNextId, sIdBelow, sSent, sPages, sPc>>

assignVars == <<paVariant, paIds, paPagesLeft, paLog, paPc>>

vars == <<upsertVars, fetchVars, jobVars, replayVars, ledgerVars,
         pagerVars,
         scoreVars,
         mvpVars,
         exitVars,
         paceVars,
         bootVars,
         normVars,
         loginVars,
         resumeVars,
         scrollVars,
         assignVars>>

\* The machines at rest: what a specification of another machine starts
\* them in and leaves them in.
UpsertIdle ==
    /\ uBatchSize = 0 /\ uRows = 0 /\ uI = 0 /\ uPc = "off" /\ uStack = <<>>
    /\ uWritten = {} /\ uTotalUpserted = 0 /\ uCount = 0 /\ uLog = <<>>
    /\ uFaults = 0 /\ uThrown = {}
FetchIdle ==
    /\ fVariant = "off" /\ fAttempt = 0 /\ fRequests = 0 /\ fOutcome = "off"
    /\ fLast = -1 /\ fOnlyRetryable = TRUE /\ fUrlHas429 = FALSE
JobIdle ==
    /\ jVariant = "off" /\ jPc = "off" /\ jCheckpoint = 0 /\ jClock = 0
    /\ jStartTime = 0 /\ jLastUpdate = 0 /\ jUpstream = 0 /\ jPage = 0
    /\ jAll = 0 /\ jBatchAt = 0 /\ jStore = {} /\ jFetchError = FALSE
    /\ jUpsertError = FALSE /\ jBefore = 0 /\ jRuns = 0
ReplayIdle ==
    /\ rVariant = "off" /\ rBefore = {} /\ rStore = {} /\ rLast = <<>>
    /\ rSnap = {} /\ rReplayed = FALSE
LedgerIdle ==
    /\ lUpstream = <<>> /\ lNow = 0 /\ lStore = {} /\ lLedger = <<>>
    /\ lRuns = 0 /\ lMode = "off" /\ lPc = "off" /\ lSince = 0 /\ lPage = 0
    /\ lMaxSeen = 0 /\ lTotalUpserted = 0 /\ lFeedFailed = FALSE
    /\ lToDelete = {} /\ lDeleted = {} /\ lLocalWindow = {}
    /\ lUpstreamWindow = {} /\ lResumeBefore = 0
PagerIdle ==
    /\ pgLoop = "off" /\ pgPc = "off" /\ pgSince = 0 /\ pgUpstream = <<>>
    /\ pgPage = 0 /\ pgRequests = 0 /\ pgEnded = FALSE /\ pgAfterEnd = FALSE
    /\ pgTotalUpserted = 0 /\ pgMaxSeen = 0 /\ pgFetched = <<>>
    /\ pgLedger = <<>>
ScoreIdle ==
    /\ scObs = <<>> /\ scRubric = <<>> /\ scLinks = {} /\ scRows = <<>>
    /\ scByStudent = <<>> /\ scPrev = <<>> /\ scEntries = {} /\ scRuns = 0
    /\ scVariant = "off" /\ scOutcomes = <<>> /\ scPc = "off"
MvpIdle ==
    /\ mvObservations = {} /\ mvCfg = <<>> /\ mvRuns = 0 /\ mvEntries = {}
    /\ mvFirst = <<>> /\ mvCalls = 0

ExitIdle ==
    /\ xVariant = "off" /\ xTodo = 0 /\ xLog = <<>> /\ xHadError = FALSE
    /\ xCode = 0

PaceIdle ==
    /\ wLoop = "off" /\ wThrottle = 0 /\ wAttempt = 0 /\ wDelay = 0
    /\ wRequests = 0 /\ wWait = 0 /\ wLast = <<>> /\ wPc = "off"

BootIdle ==
    /\ bVariant = "off" /\ bEnv = <<>> /\ bPc = "off" /\ bIo = 0 /\ bCode = 0

NormIdle ==
    /\ nVariant = "off" /\ nObs = <<>> /\ nRow = <<>> /\ nBody = <<>> /\ nPc = "off"

LoginIdle ==
    /\ ulRows = <<>> /\ ulLast = <<>> /\ ulCalls = 0 - 1

ResumeIdle ==
    /\ zUpstream = <<>> /\ zStore = {} /\ zBatchSize = 0 /\ zSince = 0 /\ zPage = 0
    /\ zRows = <<>> /\ zI = 0 /\ zStack = <<>> /\ zThrown = {}
    /\ zRuns = 0 /\ zPc = "off"

ScrollIdle ==
    /\ sUpstream = {} /\ sNextId = 0 /\ sIdBelow = 0 /\ sSent = <<>> /\ sPages = <<>>
    /\ sPc = "off"

AssignIdle ==
    /\ paVariant = "off" /\ paIds = "off" /\ paPagesLeft = 0 /\ paLog = <<>> /\ paPc = "off"

Max(a, b) == IF a >= b THEN a ELSE b
Min(a, b) == IF a <= b THEN a ELSE b

(***************************************************************************)
(* sbUpsert, unnamed/part_010 lines 79-134.                                *)
(***************************************************************************)
MIN_BATCH_SIZE == 10
MAX_RETRIES == 6

\* Bounds of the model.
MaxFaults == 7      \* non-success write responses per page
MaxLog == 3         \* requests remembered in uLog

\* What a POST to the store can answer: success, statement timeout
\* (500 with SQLSTATE 57014 in the body), another 5xx, a 4xx, or a rejected
\* fetch (status 0: network error).
WriteResponses ==
    { [status |-> 200, has57014 |-> FALSE],
      [status |-> 500, has57014 |-> TRUE],
      [status |-> 503, has57014 |-> FALSE],
      [status |-> 400, has57014 |-> FALSE],
      [status |-> 0,   has57014 |-> FALSE] }

ResOk(r) == r.status >= 200 /\ r.status <= 299

NewFrame(lo, hi, batchSize) ==
    [lo |-> lo, hi |-> hi, batchSize |-> batchSize, attempt |-> 0,
     phase |-> "request", r1 |-> 0]

FrameLen(f) == f.hi - f.lo + 1
Pop(s) == SubSeq(s, 1, Len(s) - 1)
Top(s) == s[Len(s)]
SetTop(s, f) == [s EXCEPT ![Len(s)] = f]

\* const mid = Math.ceil(rows.length / 2)
Mid(n) == (n + 1) \div 2
\* Mutant of NewBatchSize: the halves are written with the batch size of
\* the call that split.
NewBatchSize_NoShrink(batchSize) == batchSize

\* const newBatchSize = Math.max(MIN_BATCH_SIZE, Math.floor(batchSize / 2))
NewBatchSize(batchSize) == Max(MIN_BATCH_SIZE, batchSize \div 2)

\* The activation on top of stack returns { count }.  Its caller is either
\* main (empty rest) or a bisecting sbUpsert waiting for r1 or r2.
RECURSIVE sbReturn(_, _, _)
sbReturn(stack, count, thrown) ==
    LET rest == Pop(stack) IN
    IF rest = <<>>
    THEN [stack |-> <<>>, outcome |-> "returned", count |-> count, thrown |-> thrown]
    ELSE LET p == Top(rest)
             rightLo == p.lo + Mid(FrameLen(p))
         IN IF p.phase = "left"
            THEN IF rightLo > p.hi
                 \* right is empty: if (!rows.length) return { count: 0 }
                 THEN sbReturn(rest, count + 0, thrown)
                 ELSE [stack |-> Append(SetTop(rest, [p EXCEPT !.phase = "right", !.r1 = count]),
                                        NewFrame(rightLo, p.hi, NewBatchSize(p.batchSize))),
                       outcome |-> "none", count |-> 0, thrown |-> thrown]
            ELSE sbReturn(rest, p.r1 + count, thrown)

\* The activation on top of stack throws.  A caller that is itself sbUpsert
\* awaits r1/r2 inside its own try block, so its catch clause runs.
RECURSIVE sbThrow(_, _)
sbThrow(stack, thrown) ==
    LET f == Top(stack)
        rest == Pop(stack)
        th == thrown \cup {<<f.lo, f.hi, f.batchSize, f.attempt>>}
    IN IF rest = <<>>
       THEN [stack |-> <<>>, outcome |-> "thrown", count |-> 0, thrown |-> th]
       ELSE LET p == Top(rest)
            IN IF p.attempt = MAX_RETRIES
               THEN sbThrow(rest, th)
               ELSE [stack |-> SetTop(rest, [p EXCEPT !.attempt = p.attempt + 1,
                                                     !.phase = "request"]),
                     outcome |-> "none", count |-> 0, thrown |-> th]

\* Mutant of sbCatch: exhausted retries end the call as if nothing had been
\* asked of it, instead of rethrowing.
sbCatch_SwallowsExhaustion(stack, thrown) ==
    LET f == Top(stack)
    IN IF f.attempt = MAX_RETRIES
       THEN sbReturn(stack, 0, thrown)
       ELSE [stack |-> SetTop(stack, [f EXCEPT !.attempt = f.attempt + 1]),
             outcome |-> "none", count |-> 0, thrown |-> thrown]

\* The catch clause of the running activation itself (lines 127-132).
sbCatch(stack, thrown) ==
    LET f == Top(stack)
    IN IF f.attempt = MAX_RETRIES
       THEN sbThrow(stack, thrown)
       ELSE [stack |-> SetTop(stack, [f EXCEPT !.attempt = f.attempt + 1]),
             outcome |-> "none", count |-> 0, thrown |-> thrown]

\* Mutant of ShouldBisect: the full batch is retried twice before it is split.
ShouldBisect_AfterTwoRetries(f, r) ==
    r.status = 500 /\ r.has57014 /\ f.batchSize > MIN_BATCH_SIZE /\ f.attempt >= 2

\* if (res.status === 500 && text.includes("57014") && batchSize > MIN_BATCH_SIZE)
ShouldBisect(f, r) ==
    r.status = 500 /\ r.has57014 /\ f.batchSize > MIN_BATCH_SIZE

\* One iteration of the for loop of the running activation on response r.
sbStep(stack, r, thrown) ==
    LET f == Top(stack)
    IN IF r.status = 0 THEN sbCatch(stack, thrown)
       ELSE IF ResOk(r) THEN sbReturn(stack, FrameLen(f), thrown)
       ELSE IF ShouldBisect(f, r)
       THEN [stack |-> Append(SetTop(stack, [f EXCEPT !.phase = "left"]),
                              NewFrame(f.lo, f.lo + Mid(FrameLen(f)) - 1,
                                       NewBatchSize(f.batchSize))),
             outcome |-> "none", count |-> 0, thrown |-> thrown]
       ELSE IF r.status >= 500 /\ f.attempt < MAX_RETRIES
       THEN [stack |-> SetTop(stack, [f EXCEPT !.attempt = f.attempt + 1]),
             outcome |-> "none", count |-> 0, thrown |-> thrown]
       \* throw new Error(...) inside the try block: caught at line 127
       ELSE sbCatch(stack, thrown)

StatusClass(r) ==
    IF ResOk(r) THEN "ok"
    ELSE IF r.status = 500 /\ r.has57014 THEN "timeout"
    ELSE "error"

\* main, lines 332-336: const chunk = rows.slice(i, i + UPSERT_BATCH_SIZE);
\* await sbUpsert(OBS_TABLE, chunk, OBS_ID_COLUMN)
ChunkCall ==
    /\ uPc = "loop"
    /\ uI < uRows
    /\ uStack' = <<NewFrame(uI + 1, Min(uI + uBatchSize, uRows), uBatchSize)>>
    /\ uPc' = "call"
    /\ uLog' = <<>>
    /\ UNCHANGED <<uBatchSize, uRows, uI, uWritten, uTotalUpserted, uCount,
                   uFaults, uThrown>>
    /\ UNCHANGED <<fetchVars, jobVars, replayVars, ledgerVars, pagerVars, scoreVars, mvpVars, exitVars, paceVars, bootVars, normVars, loginVars, resumeVars, scrollVars, assignVars>>

\* for (let i = 0; i < rows.length; ...) ends
ChunkLoopEnd ==
    /\ uPc = "loop"
    /\ uI >= uRows
    /\ uPc' = "done"
    /\ UNCHANGED <<uBatchSize, uRows, uI, uStack, uWritten, uTotalUpserted,
                   uCount, uLog, uFaults, uThrown>>
    /\ UNCHANGED <<fetchVars, jobVars, replayVars, ledgerVars, pagerVars, scoreVars, mvpVars, exitVars, paceVars, bootVars, normVars, loginVars, resumeVars, scrollVars, assignVars>>

\* One POST of the running sbUpsert activation and everything the code does
\* with its answer, up to the next POST.
sbUpsertRequest ==
    /\ uPc = "call"
    /\ \E r \in WriteResponses :
        /\ (~ResOk(r)) => uFaults < MaxFaults
        /\ LET f == Top(uStack)
               n == sbStep(uStack, r, uThrown)
           IN /\ uFaults' = IF ResOk(r) THEN uFaults ELSE uFaults + 1
              /\ uWritten' = IF ResOk(r) THEN uWritten \cup (f.lo .. f.hi) ELSE uWritten
              /\ uLog' = IF Len(uLog) < MaxLog
                         THEN Append(uLog, <<f.lo, f.hi, StatusClass(r)>>)
                         ELSE uLog
              /\ uStack' = n.stack
              /\ uThrown' = n.thrown
              /\ uPc' = CASE n.outcome = "returned" -> "loop"
                          [] n.outcome = "thrown" -> "failed"
                          [] OTHER -> "call"
              /\ uCount' = IF n.outcome = "returned" THEN n.count ELSE uCount
              \* totalUpserted += chunk.length; i += UPSERT_BATCH_SIZE
              /\ uTotalUpserted' = IF n.outcome = "returned"
                                   THEN uTotalUpserted + (Min(uI + uBatchSize, uRows) - uI)
                                   ELSE uTotalUpserted
              /\ uI' = IF n.outcome = "returned" THEN uI + uBatchSize ELSE uI
    /\ UNCHANGED <<uBatchSize, uRows>>
    /\ UNCHANGED <<fetchVars, jobVars, replayVars, ledgerVars, pagerVars, scoreVars, mvpVars, exitVars, paceVars, bootVars, normVars, loginVars, resumeVars, scrollVars, assignVars>>

InitUpsert ==
    \* UPSERT_BATCH_SIZE: the default 50, the documented override 100, and
    \* two small sizes at and just above the floor
    /\ uBatchSize \in {10, 20, 50, 100}
    \* results.length of the page main writes
    /\ uRows \in {1, 15, 100}
    /\ uI = 0
    /\ uPc = "loop"
    /\ uStack = <<>>
    /\ uWritten = {}
    /\ uTotalUpserted = 0
    /\ uCount = 0
    /\ uLog = <<>>
    /\ uFaults = 0
    /\ uThrown = {}
    /\ FetchIdle /\ JobIdle /\ ReplayIdle /\ LedgerIdle /\ PagerIdle /\ ScoreIdle /\ MvpIdle /\ ExitIdle /\ PaceIdle /\ BootIdle /\ NormIdle /\ LoginIdle /\ ResumeIdle /\ ScrollIdle /\ AssignIdle

NextUpsert ==
    \/ ChunkCall
    \/ ChunkLoopEnd
    \/ sbUpsertRequest

SpecUpsert == InitUpsert /\ [][NextUpsert]_vars

\* The first request of the call carried the whole 100-row batch and met a
\* statement timeout.
FullBatchTimedOut ==
    /\ uRows = 100 /\ uBatchSize = 100
    /\ Len(uLog) >= 1 /\ uLog[1] = <<1, 100, "timeout">>

SpecUpsertFair == SpecUpsert /\ WF_vars(NextUpsert)

SCROLL_MAX_RETRIES == 7

\* Bound of the model: requests of one page by inatObsPager, whose loop has
\* no counter.
MaxPagerRequests == 9

\* Statuses an upstream response can carry; 0 stands for a rejected fetch.
Statuses == {200, 429, 403, 404, 500, 0}
StatusOk(s) == s >= 200 /\ s <= 299
Retryable(s) == s = 429 \/ s >= 500

FetchState(attempt, outcome) == [attempt |-> attempt, outcome |-> outcome]

\* catch (err) of both fetchJson generations: rethrow on the last attempt,
\* otherwise sleep and go round the loop again.
fetchJsonCatch(attempt) ==
    IF attempt = MAX_RETRIES
    THEN FetchState(attempt, "thrown")
    ELSE FetchState(attempt + 1, "running")

\* continue: the for loop's attempt++ and its test attempt <= MAX_RETRIES;
\* when the test fails the function ends without a return statement.
fetchJsonContinue(attempt) ==
    IF attempt + 1 <= MAX_RETRIES
    THEN FetchState(attempt + 1, "running")
    ELSE FetchState(attempt + 1, "undefined")

\* sql/diagnostic_score_entries_schema.sql 68-84
fetchJsonLedgerStep(attempt, s) ==
    IF s = 0 THEN fetchJsonCatch(attempt)
    ELSE IF s = 429 THEN fetchJsonContinue(attempt)
    \* if (!res.ok) throw ...: inside the try block, so the catch clause runs
    ELSE IF ~StatusOk(s) THEN fetchJsonCatch(attempt)
    ELSE FetchState(attempt, "json")

\* unnamed/part_010 150-201, maxRetries = MAX_RETRIES
fetchJsonStep(attempt, s) ==
    IF s = 0 THEN fetchJsonCatch(attempt)
    ELSE IF s = 429 THEN fetchJsonContinue(attempt)
    ELSE IF s = 403 /\ attempt < MAX_RETRIES THEN FetchState(attempt + 1, "running")
    ELSE IF s >= 500 /\ attempt < MAX_RETRIES THEN FetchState(attempt + 1, "running")
    ELSE IF ~StatusOk(s) THEN fetchJsonCatch(attempt)
    ELSE FetchState(attempt, "json")

\* unnamed/part_004 70-114.  A rejected fetch becomes { ok: false, status: 0 }.
fetchJsonWithRetriesStep(attempt, s) ==
    IF StatusOk(s) THEN FetchState(attempt, "json")
    ELSE IF (s = 429 \/ s = 403 \/ s >= 500) /\ attempt < SCROLL_MAX_RETRIES
    THEN FetchState(attempt + 1, "running")
    ELSE FetchState(attempt, "thrown")

\* String(e).includes("429") on the error of http(): "HTTP <status> <url>\n..."
\* for a non-success status; a rejected fetch carries no URL.
ErrorMentions429(s, urlHas429) == s = 429 \/ (s # 0 /\ urlHas429)

\* ingest.mjs 50-60: one turn of the while (true) loop for the same page
inatObsPagerStep(attempt, s, urlHas429) ==
    IF StatusOk(s) THEN FetchState(attempt, "json")
    ELSE IF ErrorMentions429(s, urlHas429) THEN FetchState(attempt + 1, "running")
    ELSE FetchState(attempt, "thrown")

FetchEffect(n, s) ==
    /\ fAttempt' = n.attempt
    /\ fOutcome' = n.outcome
    /\ fRequests' = fRequests + 1
    /\ fLast' = s
    /\ fOnlyRetryable' = (fOnlyRetryable /\ Retryable(s))
    /\ UNCHANGED <<fVariant, fUrlHas429>>
    /\ UNCHANGED <<upsertVars, jobVars, replayVars, ledgerVars, pagerVars, scoreVars, mvpVars, exitVars, paceVars, bootVars, normVars, loginVars, resumeVars, scrollVars, assignVars>>

FetchJsonLedgerRequest ==
    /\ fVariant = "fetchJson_ledger" /\ fOutcome = "running"
    /\ \E s \in Statuses : FetchEffect(fetchJsonLedgerStep(fAttempt, s), s)

FetchJsonRequest ==
    /\ fVariant = "fetchJson" /\ fOutcome = "running"
    /\ \E s \in Statuses : FetchEffect(fetchJsonStep(fAttempt, s), s)

FetchJsonWithRetriesRequest ==
    /\ fVariant = "fetchJsonWithRetries" /\ fOutcome = "running"
    /\ \E s \in Statuses : FetchEffect(fetchJsonWithRetriesStep(fAttempt, s), s)

InatObsPagerRequest ==
    /\ fVariant = "inatObsPager" /\ fOutcome = "running"
    /\ fRequests < MaxPagerRequests
    /\ \E s \in Statuses : FetchEffect(inatObsPagerStep(fAttempt, s, fUrlHas429), s)

InitFetch ==
    /\ fVariant \in {"fetchJson_ledger", "fetchJson", "fetchJsonWithRetries", "inatObsPager"}
    /\ fAttempt = IF fVariant = "fetchJsonWithRetries" THEN 1 ELSE 0
    /\ fRequests = 0
    /\ fOutcome = "running"
    /\ fLast = -1
    /\ fOnlyRetryable = TRUE
    /\ fUrlHas429 \in (IF fVariant = "inatObsPager" THEN BOOLEAN ELSE {FALSE})
    /\ UpsertIdle /\ JobIdle /\ ReplayIdle /\ LedgerIdle /\ PagerIdle /\ ScoreIdle /\ MvpIdle /\ ExitIdle /\ PaceIdle /\ BootIdle /\ NormIdle /\ LoginIdle /\ ResumeIdle /\ ScrollIdle /\ AssignIdle

NextFetch ==
    \/ FetchJsonLedgerRequest
    \/ FetchJsonRequest
    \/ FetchJsonWithRetriesRequest
    \/ InatObsPagerRequest

SpecFetch == InitFetch /\ [][NextFetch]_vars

\* C7: a page request that keeps being answered 429 or 5xx is given up after
\* a fixed number of attempts with a terminal error: the fetcher issues no
\* more requests than its ceiling and never returns to its caller (with JSON
\* or with undefined, which callers read as an empty page) when every answer
\* was a 429 or a 5xx.
C7_RetriesEndInTerminalError ==
    \* attempt runs over 0..MAX_RETRIES in fetchJson and over 1..maxRetries in
    \* fetchJsonWithRetries; inatObsPager has no counter of its own and is held
    \* to the ceiling of the fetchJson generations
    /\ fRequests <= (IF fVariant = "fetchJsonWithRetries" THEN SCROLL_MAX_RETRIES
                     ELSE MAX_RETRIES + 1)
    /\ (fRequests >= 1 /\ fOnlyRetryable) => fOutcome \in {"running", "thrown"}

\* C8: a response with a non-success status other than 429 or 5xx makes the
\* fetcher throw on that attempt, so that no further request follows it.
C8_OtherStatusFailsFast ==
    (fLast \in Statuses /\ fLast # 0 /\ ~StatusOk(fLast) /\ ~Retryable(fLast))
        => fOutcome = "thrown"

(***************************************************************************)
(* The job_metadata-checkpoint ingest.  Two generations of the script:     *)
(*   "part_005"    unnamed/part_005 1-180 (deletions first; a failed page  *)
(*                 request ends the page loop)                             *)
(*   "assert_sql"  sql/assert_security_and_perf_ok.sql 98-235 (a failed    *)
(*                 page request throws)                                    *)
(* Observations are numbered 1..jUpstream in upstream order; time is the   *)
(* run counter.                                                            *)
(***************************************************************************)

\* Bounds of the model, scaled from per_page = 200 and BATCH_SIZE = 500.
JOB_PER_PAGE == 2
JOB_BATCH_SIZE == 3
MaxJobObs == 5      \* observations upstream holds for the query
MaxJobRuns == 2     \* runs of the script

\* Rows of page number page of a listing of n rows.
JobPageLen(n, page) == Max(0, Min(JOB_PER_PAGE, n - (page - 1) * JOB_PER_PAGE))

\* main: startTime = new Date(); lastUpdate = await getMostRecentUpdateTime().
\* A read error other than PGRST116 is logged and answered with null.
JobStart ==
    /\ jPc = "start"
    /\ jRuns < MaxJobRuns
    /\ jRuns' = jRuns + 1
    /\ jClock' = jClock + 1
    /\ jStartTime' = jClock + 1
    /\ jBefore' = jCheckpoint
    /\ \E readFails \in BOOLEAN :
          jLastUpdate' = IF readFails THEN 0 ELSE jCheckpoint
    /\ jUpstream' \in 0 .. MaxJobObs
    /\ jPage' = 1
    /\ jAll' = 0
    /\ jBatchAt' = 0
    /\ jFetchError' = FALSE
    /\ jUpsertError' = FALSE
    /\ jPc' = IF jVariant = "part_005" THEN "deletions" ELSE "fetch"
    /\ UNCHANGED <<jVariant, jCheckpoint, jStore>>
    /\ UNCHANGED <<upsertVars, fetchVars, replayVars, ledgerVars, pagerVars, scoreVars, mvpVars, exitVars, paceVars, bootVars, normVars, loginVars, resumeVars, scrollVars, assignVars>>

\* unnamed/part_005 117-156: skipped without a checkpoint; an API error or
\* a delete error is logged and the function returns.
HandleDeletions ==
    /\ jPc = "deletions"
    /\ \E apiOk \in BOOLEAN, deleteOk \in BOOLEAN, deletedIds \in SUBSET (1 .. MaxJobObs) :
          jStore' = IF jLastUpdate # 0 /\ apiOk /\ deleteOk
                    THEN jStore \ deletedIds
                    ELSE jStore
    /\ jPc' = "fetch"
    /\ UNCHANGED <<jVariant, jCheckpoint, jClock, jStartTime, jLastUpdate,
                   jUpstream, jPage, jAll, jBatchAt, jFetchError,
                   jUpsertError, jBefore, jRuns>>
    /\ UNCHANGED <<upsertVars, fetchVars, replayVars, ledgerVars, pagerVars, scoreVars, mvpVars, exitVars, paceVars, bootVars, normVars, loginVars, resumeVars, scrollVars, assignVars>>

\* One turn of fetchObservations' while (true) loop.
FetchObservationsPage ==
    /\ jPc = "fetch"
    /\ \E ok \in BOOLEAN :
          IF ~ok
          THEN \* part_005 62-65: console.error; break.
               \* assert_sql 160-165: throw new Error(...)
               /\ jFetchError' = TRUE
               /\ jPc' = IF jVariant = "part_005" THEN "upsert" ELSE "failed"
               /\ UNCHANGED <<jPage, jAll>>
          ELSE IF JobPageLen(jUpstream, jPage) = 0
          THEN /\ jPc' = "upsert"
               /\ UNCHANGED <<jPage, jAll, jFetchError>>
          ELSE /\ jAll' = jAll + JobPageLen(jUpstream, jPage)
               /\ jPage' = jPage + 1
               /\ UNCHANGED <<jPc, jFetchError>>
    /\ UNCHANGED <<jVariant, jCheckpoint, jClock, jStartTime, jLastUpdate,
                   jUpstream, jBatchAt, jStore, jUpsertError, jBefore, jRuns>>
    /\ UNCHANGED <<upsertVars, fetchVars, replayVars, ledgerVars, pagerVars, scoreVars, mvpVars, exitVars, paceVars, bootVars, normVars, loginVars, resumeVars, scrollVars, assignVars>>

\* One turn of upsertObservations' for loop: an error is logged and the loop
\* goes on with the next batch.
UpsertObservationsBatch ==
    /\ jPc = "upsert"
    /\ jBatchAt < jAll
    /\ \E ok \in BOOLEAN :
          /\ jStore' = IF ok
                       THEN jStore \cup ((jBatchAt + 1) .. Min(jBatchAt + JOB_BATCH_SIZE, jAll))
                       ELSE jStore
          /\ jUpsertError' = (jUpsertError \/ ~ok)
    /\ jBatchAt' = jBatchAt + JOB_BATCH_SIZE
    /\ UNCHANGED <<jVariant, jPc, jCheckpoint, jClock, jStartTime, jLastUpdate,
                   jUpstream, jPage, jAll, jFetchError, jBefore, jRuns>>
    /\ UNCHANGED <<upsertVars, fetchVars, replayVars, ledgerVars, pagerVars, scoreVars, mvpVars, exitVars, paceVars, bootVars, normVars, loginVars, resumeVars, scrollVars, assignVars>>

\* upsertObservations returns (nothing to write, or the loop has ended).
UpsertObservationsEnd ==
    /\ jPc = "upsert"
    /\ jBatchAt >= jAll
    /\ jPc' = "checkpoint"
    /\ UNCHANGED <<jVariant, jCheckpoint, jClock, jStartTime, jLastUpdate,
                   jUpstream, jPage, jAll, jBatchAt, jStore, jFetchError,
                   jUpsertError, jBefore, jRuns>>
    /\ UNCHANGED <<upsertVars, fetchVars, replayVars, ledgerVars, pagerVars, scoreVars, mvpVars, exitVars, paceVars, bootVars, normVars, loginVars, resumeVars, scrollVars, assignVars>>

\* await updateLastUpdateTime(startTime): an error is logged only.
UpdateLastUpdateTime ==
    /\ jPc = "checkpoint"
    /\ \E ok \in BOOLEAN :
          jCheckpoint' = IF ok THEN jStartTime ELSE jCheckpoint
    /\ jPc' = "done"
    /\ UNCHANGED <<jVariant, jClock, jStartTime, jLastUpdate, jUpstream, jPage,
                   jAll, jBatchAt, jStore, jFetchError, jUpsertError, jBefore,
                   jRuns>>
    /\ UNCHANGED <<upsertVars, fetchVars, replayVars, ledgerVars, pagerVars, scoreVars, mvpVars, exitVars, paceVars, bootVars, normVars, loginVars, resumeVars, scrollVars, assignVars>>

\* The scheduler starts the script again after it has ended.
JobNextRun ==
    /\ jPc \in {"done", "failed"}
    /\ jRuns < MaxJobRuns
    /\ jPc' = "start"
    /\ UNCHANGED <<jVariant, jCheckpoint, jClock, jStartTime, jLastUpdate,
                   jUpstream, jPage, jAll, jBatchAt, jStore, jFetchError,
                   jUpsertError, jBefore, jRuns>>
    /\ UNCHANGED <<upsertVars, fetchVars, replayVars, ledgerVars, pagerVars, scoreVars, mvpVars, exitVars, paceVars, bootVars, normVars, loginVars, resumeVars, scrollVars, assignVars>>

InitJob ==
    /\ jVariant \in {"part_005", "assert_sql"}
    /\ jPc = "start"
    /\ jCheckpoint = 0 /\ jClock = 0 /\ jStartTime = 0 /\ jLastUpdate = 0
    /\ jUpstream = 0 /\ jPage = 0 /\ jAll = 0 /\ jBatchAt = 0 /\ jStore = {}
    /\ jFetchError = FALSE /\ jUpsertError = FALSE /\ jBefore = 0 /\ jRuns = 0
    /\ UpsertIdle /\ FetchIdle /\ ReplayIdle /\ LedgerIdle /\ PagerIdle /\ ScoreIdle /\ MvpIdle /\ ExitIdle /\ PaceIdle /\ BootIdle /\ NormIdle /\ LoginIdle /\ ResumeIdle /\ ScrollIdle /\ AssignIdle

NextJob ==
    \/ JobStart
    \/ HandleDeletions
    \/ FetchObservationsPage
    \/ UpsertObservationsBatch
    \/ UpsertObservationsEnd
    \/ UpdateLastUpdateTime
    \/ JobNextRun

SpecJob == InitJob /\ [][NextJob]_vars

\* C6: a run that met a non-success page response or a batch upsert error
\* leaves the persisted checkpoint last_inat_update_utc as it found it.
C6_ErrorKeepsCheckpoint ==
    (jFetchError \/ jUpsertError) => jCheckpoint = jBefore

(***************************************************************************)
(* The keyed merge-on-conflict write to the observations table.            *)
(*   "sbUpsert"  unnamed/part_010 79-134 and                               *)
(*               sql/diagnostic_score_entries_schema.sql 101-112:          *)
(*               POST ?on_conflict=id, Prefer: resolution=merge-duplicates *)
(*   "upsert"    ingest.mjs 88-108: in-batch dedupe by the conflict key,   *)
(*               then the same POST in chunks of CHUNK rows                *)
(*   "upsert_478" ingest.mjs 478-492: the same POST in chunks of CH rows   *)
(*               of the rows as they were passed                           *)
(* The table is a set of rows, so that one row per key is a property of    *)
(* the writers and not of the representation.                              *)
(***************************************************************************)
Writers == {"sbUpsert", "upsert", "upsert_478"}

\* Bounds of the model.
MaxObsId == 2       \* observation ids 1..MaxObsId
MaxBatchLen == 2    \* rows in a batch
CHUNK == 2          \* scaled from const CHUNK = 200 of upsert

ObsRows == [id : 1 .. MaxObsId, updated_at : {1, 2}]
Batches == UNION { [1 .. n -> ObsRows] : n \in 0 .. MaxBatchLen }

Range(f) == { f[i] : i \in DOMAIN f }
KeyUnique(table) == \A a, b \in table : a.id = b.id => a = b
HasDuplicateKeys(rows) ==
    \E i, j \in DOMAIN rows : i < j /\ rows[i].id = rows[j].id

\* Mutant of MergeDuplicates: a plain INSERT, with no conflict resolution.
MergeDuplicates_InsertOnly(table, rows) == table \cup Range(rows)

\* INSERT ... ON CONFLICT (id) DO UPDATE of rows with pairwise different
\* keys: a stored row with the key of a payload row is replaced by it.
MergeDuplicates(table, rows) ==
    { t \in table : \A i \in DOMAIN rows : rows[i].id # t.id } \cup Range(rows)

\* One POST.  A payload that holds a key twice is rejected as a whole (ON
\* CONFLICT DO UPDATE cannot affect a row a second time) and changes nothing.
PostUpsert(table, rows) ==
    IF HasDuplicateKeys(rows)
    THEN [ok |-> FALSE, table |-> table]
    ELSE [ok |-> TRUE, table |-> MergeDuplicates(table, rows)]

\* sbUpsert on a store that answers: the rows reach the store in one POST or,
\* after bisection, in several POSTs of disjoint slices.
sbUpsertEffect(table, rows) ==
    IF Len(rows) = 0 THEN [ok |-> TRUE, table |-> table]
    ELSE PostUpsert(table, rows)

LastIndexOf(rows, key) ==
    CHOOSE i \in DOMAIN rows :
        /\ rows[i].id = key
        /\ \A j \in DOMAIN rows : rows[j].id = key => j <= i

\* for (const r of rows) map.set(keyFn(r), r); Array.from(map.values()):
\* a Map keeps the position of a key's first insertion and its last value.
RECURSIVE DedupeFrom(_, _)
DedupeFrom(rows, i) ==
    IF i > Len(rows) THEN <<>>
    ELSE IF \E j \in 1 .. (i - 1) : rows[j].id = rows[i].id
    THEN DedupeFrom(rows, i + 1)
    ELSE <<rows[LastIndexOf(rows, rows[i].id)]>> \o DedupeFrom(rows, i + 1)

CleanRows(rows) == DedupeFrom(rows, 1)

\* for (let i = 0; i < cleanRows.length; i += CHUNK) await http("POST", ...)
RECURSIVE UpsertChunks(_, _, _)
UpsertChunks(table, cleanRows, i) ==
    IF i >= Len(cleanRows) THEN [ok |-> TRUE, table |-> table]
    ELSE LET slice == SubSeq(cleanRows, i + 1, Min(i + CHUNK, Len(cleanRows)))
             res == PostUpsert(table, slice)
         IN IF res.ok THEN UpsertChunks(res.table, cleanRows, i + CHUNK) ELSE res

upsertEffect(table, rows) ==
    IF Len(rows) = 0 THEN [ok |-> TRUE, table |-> table]
    ELSE UpsertChunks(table, CleanRows(rows), 0)

\* if (!rows?.length) return; for (let i = 0; i < rows.length; i += CH)
\* await http("POST", ..., rows.slice(i, i + CH), h): no in-batch dedupe.
upsert_478Effect(table, rows) ==
    IF Len(rows) = 0 THEN [ok |-> TRUE, table |-> table]
    ELSE UpsertChunks(table, rows, 0)

WriteEffect(writer, table, rows) ==
    IF writer = "upsert" THEN upsertEffect(table, rows)
    ELSE IF writer = "upsert_478" THEN upsert_478Effect(table, rows)
    ELSE sbUpsertEffect(table, rows)

\* The bodies of the POSTs the chunk loop of upsert makes for the rows it
\* loops over, up to and including the first one the store rejects (http
\* throws on a non-2xx answer).
RECURSIVE ChunkPayloads(_, _, _)
ChunkPayloads(table, rows, i) ==
    IF i >= Len(rows) THEN <<>>
    ELSE LET slice == SubSeq(rows, i + 1, Min(i + CHUNK, Len(rows)))
             res == PostUpsert(table, slice)
         IN IF res.ok THEN <<slice>> \o ChunkPayloads(res.table, rows, i + CHUNK)
            ELSE <<slice>>

SentPayloads(writer, table, rows) ==
    IF writer = "upsert" THEN ChunkPayloads(table, CleanRows(rows), 0)
    ELSE IF writer = "upsert_478" THEN ChunkPayloads(table, rows, 0)
    ELSE IF Len(rows) = 0 THEN <<>> ELSE <<rows>>

\* The upsert of a fetched page.
ApplyBatch ==
    /\ rVariant = "none"
    /\ \E w \in Writers, b \in Batches :
          /\ rVariant' = w
          /\ rLast' = b
          /\ rStore' = WriteEffect(w, rStore, b).table
          /\ rSnap' = WriteEffect(w, rStore, b).table
    /\ UNCHANGED <<rBefore, rReplayed>>
    /\ UNCHANGED <<upsertVars, fetchVars, jobVars, ledgerVars, pagerVars, scoreVars, mvpVars, exitVars, paceVars, bootVars, normVars, loginVars, resumeVars, scrollVars, assignVars>>

\* The upsert of the same page again (a retried run, the safety overlap).
ReplayBatch ==
    /\ rVariant \in Writers
    /\ rStore' = WriteEffect(rVariant, rStore, rLast).table
    /\ rReplayed' = TRUE
    /\ UNCHANGED <<rVariant, rBefore, rLast, rSnap>>
    /\ UNCHANGED <<upsertVars, fetchVars, jobVars, ledgerVars, pagerVars, scoreVars, mvpVars, exitVars, paceVars, bootVars, normVars, loginVars, resumeVars, scrollVars, assignVars>>

InitReplay ==
    /\ rVariant = "none"
    /\ rStore \in { t \in SUBSET ObsRows : KeyUnique(t) }
    /\ rBefore = rStore
    /\ rLast = <<>>
    /\ rSnap = rStore
    /\ rReplayed = FALSE
    /\ UpsertIdle /\ FetchIdle /\ JobIdle /\ LedgerIdle /\ PagerIdle /\ ScoreIdle /\ MvpIdle /\ ExitIdle /\ PaceIdle /\ BootIdle /\ NormIdle /\ LoginIdle /\ ResumeIdle /\ ScrollIdle /\ AssignIdle

NextReplay ==
    \/ ApplyBatch
    \/ ReplayBatch

SpecReplay == InitReplay /\ [][NextReplay]_vars

\* C1: after the same batch has been upserted a second time the table is
\* exactly what it was after the first time, it holds one row per id, and
\* (the batch having been accepted) for every id of the batch the row it
\* holds is the batch's last row for that id.
C1_ReplayLeavesStore ==
    /\ KeyUnique(rStore)
    /\ rReplayed =>
          /\ rStore = rSnap
          /\ (rVariant = "upsert" \/ ~HasDuplicateKeys(rLast)) =>
                \A i \in DOMAIN rLast :
                    rLast[LastIndexOf(rLast, rLast[i].id)] \in rStore

\* A replayed two-row batch that replaced a stored row by a newer version
\* and inserted a row under a new id, beside a row it did not touch.
C1_Witness ==
    /\ rReplayed
    /\ Len(rLast) = 2
    /\ \E i, j \in DOMAIN rLast, old \in rBefore :
          /\ old.id = rLast[i].id /\ old.updated_at < rLast[i].updated_at
          /\ rLast[i] \in rStore /\ old \notin rStore
          /\ \A t \in rBefore : t.id # rLast[j].id
          /\ rLast[j] \in rStore

\* C34: no request of the chunked upsert of ingest.mjs, in either of its two
\* versions, holds two rows with the same conflict key, and of the rows of
\* the batch with one key exactly the last one is sent.
C34_NoKeyTwiceInARequest ==
    rVariant \in {"upsert", "upsert_478"} =>
        LET sent == SentPayloads(rVariant, rBefore, rLast)
        IN  /\ \A k \in DOMAIN sent : ~HasDuplicateKeys(sent[k])
            /\ \A i \in DOMAIN rLast :
                   (\E k \in DOMAIN sent : \E n \in DOMAIN sent[k] : sent[k][n] = rLast[i] /\ i = LastIndexOf(rLast, rLast[i].id))
                   \/ (i # LastIndexOf(rLast, rLast[i].id)
                        /\ \A k \in DOMAIN sent : \A n \in DOMAIN sent[k] :
                               sent[k][n].id = rLast[i].id => sent[k][n] = rLast[LastIndexOf(rLast, rLast[i].id)])

(***************************************************************************)
(* The ledger-based ingest (the script kept in                             *)
(* sql/diagnostic_score_entries_schema.sql): getSinceTimestamp,            *)
(* fetchUpdates, fetchDeletedIdsSince, reconcileDeletes, sbDeleteByIds,    *)
(* recordRun, run by main, one process per run, against an upstream that   *)
(* changes while the runs take place.  Times are seconds since the epoch.  *)
(***************************************************************************)
SAFETY_OVERLAP_SECONDS == 30

\* Bounds of the model.
PER_PAGE == 1               \* scaled from PER_PAGE = 200
MAX_PAGES == 4              \* scaled from MAX_PAGES = 200
RECONCILE_MAX_PAGES == 1    \* scaled from while (page <= 50), a quarter of MAX_PAGES
MaxUpstreamObs == 2         \* upstream observation ids 1..MaxUpstreamObs
TICK == 20                  \* seconds between two upstream changes
MaxTicks == 2               \* upstream changes
MaxLedgerRuns == 3          \* processes started

UpstreamIds == 1 .. MaxUpstreamObs

\* The observations of the project INAT_PROJECT_SLUG.
InProject(id) == id % 3 # 2

\* The observations a query built by buildQueryParams selects: in TRIP mode
\* those of the project, in DEMO mode those of the DEMO dates, bounding box
\* and users.  Observation 1 is in the project only, 2 in the DEMO filter
\* only, 3 in both.
MatchesFilter(id, mode) ==
    IF mode = "DEMO" THEN id % 3 # 1 ELSE InProject(id)

Fresh == [state |-> "fresh", updated_at |-> 0, gone_at |-> 0]

\* GET /observations?updated_since=sinceIso&order_by=updated_at&order=asc
WindowIds(mode, since) ==
    { id \in UpstreamIds : /\ lUpstream[id].state = "live"
                           /\ MatchesFilter(id, mode)
                           /\ lUpstream[id].updated_at >= since }

RECURSIVE OrderByUpdatedAt(_)
OrderByUpdatedAt(S) ==
    IF S = {} THEN <<>>
    ELSE LET first == CHOOSE x \in S : \A y \in S :
                          \/ lUpstream[x].updated_at < lUpstream[y].updated_at
                          \/ /\ lUpstream[x].updated_at = lUpstream[y].updated_at
                             /\ x <= y
         IN <<first>> \o OrderByUpdatedAt(S \ {first})

Listing(mode, since) == OrderByUpdatedAt(WindowIds(mode, since))

\* The results of page number page of a listing.
PageOf(listing, page) ==
    SubSeq(listing, (page - 1) * PER_PAGE + 1, Min(page * PER_PAGE, Len(listing)))

\* results.map(r => ({ id: r.id, ..., updated_at: iso(r.updated_at), ... }))
ToRows(results) ==
    [i \in DOMAIN results |->
        [id |-> results[i], updated_at |-> lUpstream[results[i]].updated_at]]

\* GET /observations/deleted?project_slug=...&updated_since=sinceIso
DeletedFeed(since) ==
    { id \in UpstreamIds : /\ lUpstream[id].state = "gone"
                           /\ InProject(id)
                           /\ lUpstream[id].gone_at >= since }

\* What fetchJson gives its caller: the parsed body, undefined when the last
\* attempt was answered 429 and the loop ran out, or an exception.
FetchJsonOutcomes == {"json", "undefined", "throw"}

RECURSIVE MaxThrough(_, _)
MaxThrough(ledger, i) ==
    IF i > Len(ledger) THEN 0
    ELSE IF i = Len(ledger) THEN ledger[i].inat_updated_through_utc
    ELSE Max(ledger[i].inat_updated_through_utc, MaxThrough(ledger, i + 1))

\* order=inat_updated_through_utc.desc&limit=1, minus the overlap; the epoch
\* when the ledger is empty.
getSinceTimestamp(ledger) ==
    (IF Len(ledger) = 0 THEN 0 ELSE MaxThrough(ledger, 1)) - SAFETY_OVERLAP_SECONDS

\* Mutant of MaxUpdatedAt: the comparison is turned round.
RECURSIVE MaxUpdatedAt_Reversed(_, _, _)
MaxUpdatedAt_Reversed(rows, i, maxSeen) ==
    IF i > Len(rows) THEN maxSeen
    ELSE MaxUpdatedAt_Reversed(rows, i + 1,
                      IF rows[i].updated_at < maxSeen THEN rows[i].updated_at ELSE maxSeen)

\* for (const r of rows) if (r.updated_at && r.updated_at > maxSeen) maxSeen = r.updated_at
RECURSIVE MaxUpdatedAt(_, _, _)
MaxUpdatedAt(rows, i, maxSeen) ==
    IF i > Len(rows) THEN maxSeen
    ELSE MaxUpdatedAt(rows, i + 1,
                      IF rows[i].updated_at > maxSeen THEN rows[i].updated_at ELSE maxSeen)

\* The row recordRun posts.
RunRow ==
    [run |-> lRuns, inat_updated_through_utc |-> lMaxSeen,
     ingested_count |-> lTotalUpserted, deleted_count |-> Cardinality(lToDelete)]

\* Mutant of MainCatch: the ledger row is written on the failure path too.
MainCatch_StillRecords ==
    /\ lPc' = "failed"
    /\ lLedger' = Append(lLedger, RunRow)

\* main().catch: the process exits 1; nothing else is written.
MainCatch ==
    /\ lPc' = "failed"
    /\ UNCHANGED lLedger

\* ---- the upstream ----
\* The positions of main whose next step reads the upstream; a change of
\* the upstream at any other position is the same change at the next one.
ReadsUpstream ==
    lPc \in {"idle", "fetchUpdates", "fetchDeletedIdsSince", "reconcileDeletes"}

\* An observation is created or edited.
UpstreamTouch ==
    /\ ReadsUpstream
    /\ lNow < MaxTicks * TICK
    /\ \E id \in UpstreamIds :
          /\ lUpstream[id].state # "gone"
          /\ lUpstream' = [lUpstream EXCEPT ![id] =
                 [state |-> "live", updated_at |-> lNow + TICK, gone_at |-> 0]]
    /\ lNow' = lNow + TICK
    /\ UNCHANGED <<lStore, lLedger, lRuns, lMode, lPc, lSince, lPage, lMaxSeen,
                   lTotalUpserted, lFeedFailed, lToDelete, lDeleted,
                   lLocalWindow, lUpstreamWindow, lResumeBefore>>
    /\ UNCHANGED <<upsertVars, fetchVars, jobVars, replayVars, pagerVars, scoreVars, mvpVars, exitVars, paceVars, bootVars, normVars, loginVars, resumeVars, scrollVars, assignVars>>

\* An observation is deleted.
UpstreamRemove ==
    /\ ReadsUpstream
    /\ lNow < MaxTicks * TICK
    /\ \E id \in UpstreamIds :
          /\ lUpstream[id].state = "live"
          /\ lUpstream' = [lUpstream EXCEPT ![id] =
                 [state |-> "gone", updated_at |-> lUpstream[id].updated_at,
                  gone_at |-> lNow + TICK]]
    /\ lNow' = lNow + TICK
    /\ UNCHANGED <<lStore, lLedger, lRuns, lMode, lPc, lSince, lPage, lMaxSeen,
                   lTotalUpserted, lFeedFailed, lToDelete, lDeleted,
                   lLocalWindow, lUpstreamWindow, lResumeBefore>>
    /\ UNCHANGED <<upsertVars, fetchVars, jobVars, replayVars, pagerVars, scoreVars, mvpVars, exitVars, paceVars, bootVars, normVars, loginVars, resumeVars, scrollVars, assignVars>>

\* ---- one run of main ----
\* const since = await getSinceTimestamp(); a new process starts when the
\* one before it has exited.
LedgerStart ==
    /\ lPc \in {"idle", "done", "failed"}
    /\ lRuns < MaxLedgerRuns
    /\ lRuns' = lRuns + 1
    /\ lResumeBefore' = getSinceTimestamp(lLedger)
    /\ lPage' = 1
    /\ lTotalUpserted' = 0
    /\ lFeedFailed' = FALSE
    /\ lToDelete' = {}
    /\ lDeleted' = {}
    /\ lLocalWindow' = {}
    /\ lUpstreamWindow' = {}
    /\ \E mode \in {"TRIP", "DEMO"}, selectOk \in BOOLEAN :
          /\ lMode' = mode
          /\ IF selectOk
             THEN /\ lSince' = getSinceTimestamp(lLedger)
                  /\ lMaxSeen' = getSinceTimestamp(lLedger)
                  /\ lPc' = "fetchUpdates"
                  /\ UNCHANGED lLedger
             ELSE /\ MainCatch
                  /\ UNCHANGED <<lSince, lMaxSeen>>
    /\ UNCHANGED <<lUpstream, lNow, lStore>>
    /\ UNCHANGED <<upsertVars, fetchVars, jobVars, replayVars, pagerVars, scoreVars, mvpVars, exitVars, paceVars, bootVars, normVars, loginVars, resumeVars, scrollVars, assignVars>>

\* One turn of the loop of fetchUpdates.
FetchUpdatesPage ==
    /\ lPc = "fetchUpdates"
    /\ \E data \in FetchJsonOutcomes, writeOk \in BOOLEAN :
          LET results == IF data = "json"
                         THEN PageOf(Listing(lMode, lSince), lPage) ELSE <<>>
              rows == ToRows(results)
          IN  IF data = "throw"
              THEN /\ MainCatch
                   /\ UNCHANGED <<lStore, lPage, lMaxSeen, lTotalUpserted>>
              ELSE IF Len(results) = 0
              THEN /\ lPc' = "fetchDeletedIdsSince"
                   /\ UNCHANGED <<lStore, lLedger, lPage, lMaxSeen, lTotalUpserted>>
              ELSE IF ~writeOk
              THEN /\ MainCatch
                   /\ UNCHANGED <<lStore, lPage, lMaxSeen, lTotalUpserted>>
              ELSE /\ lStore' = sbUpsertEffect(lStore, rows).table
                   /\ lTotalUpserted' = lTotalUpserted + Len(rows)
                   /\ lMaxSeen' = MaxUpdatedAt(rows, 1, lMaxSeen)
                   /\ IF Len(results) < PER_PAGE
                      THEN lPc' = "fetchDeletedIdsSince" /\ UNCHANGED lPage
                      ELSE /\ lPage' = lPage + 1
                           /\ lPc' = IF lPage + 1 <= MAX_PAGES
                                     THEN "fetchUpdates" ELSE "fetchDeletedIdsSince"
                   /\ UNCHANGED lLedger
    /\ UNCHANGED <<lUpstream, lNow, lRuns, lMode, lSince, lFeedFailed, lToDelete,
                   lDeleted, lLocalWindow, lUpstreamWindow, lResumeBefore>>
    /\ UNCHANGED <<upsertVars, fetchVars, jobVars, replayVars, pagerVars, scoreVars, mvpVars, exitVars, paceVars, bootVars, normVars, loginVars, resumeVars, scrollVars, assignVars>>

\* let deletedIds = await fetchDeletedIdsSince(sinceIso): one page of the
\* feed, [] when fetchJson gave undefined, null when it threw.
FetchDeletedIdsSince ==
    /\ lPc = "fetchDeletedIdsSince"
    /\ \E data \in FetchJsonOutcomes :
          IF data = "throw"
          THEN /\ lFeedFailed' = TRUE
               /\ lPc' = "reconcileDeletes"
               /\ UNCHANGED lToDelete
          ELSE IF data = "undefined"
          THEN /\ lToDelete' = {}
               /\ lPc' = "sbDeleteByIds"
               /\ UNCHANGED lFeedFailed
          ELSE \E ids \in SUBSET DeletedFeed(lSince) :
                  /\ Cardinality(ids) = Min(PER_PAGE, Cardinality(DeletedFeed(lSince)))
                  /\ lToDelete' = ids
                  /\ lPc' = "sbDeleteByIds"
                  /\ UNCHANGED lFeedFailed
    /\ UNCHANGED <<lUpstream, lNow, lStore, lLedger, lRuns, lMode, lSince, lPage,
                   lMaxSeen, lTotalUpserted, lDeleted, lLocalWindow,
                   lUpstreamWindow, lResumeBefore>>
    /\ UNCHANGED <<upsertVars, fetchVars, jobVars, replayVars, pagerVars, scoreVars, mvpVars, exitVars, paceVars, bootVars, normVars, loginVars, resumeVars, scrollVars, assignVars>>

\* The ids of the pages of a listing that were answered with a body.
IdsOfPages(listing, answered) ==
    { listing[i] : i \in 1 .. Min(answered * PER_PAGE, Len(listing)) }

\* if (deletedIds === null) deletedIds = await reconcileDeletes(sinceIso).
\* The loop reads pages until one is short or empty, until fetchJson gives
\* undefined, or until the page cap: answered counts the pages it got.
ReconcileDeletes ==
    /\ lPc = "reconcileDeletes"
    /\ \E answered \in 0 .. RECONCILE_MAX_PAGES, thrown \in BOOLEAN, selectOk \in BOOLEAN :
          LET current == IdsOfPages(Listing(lMode, lSince), answered)
              supabaseRecent == { r.id : r \in { s \in lStore : s.updated_at >= lSince } }
          IN  IF thrown \/ ~selectOk
              THEN /\ MainCatch
                   /\ UNCHANGED <<lToDelete, lLocalWindow, lUpstreamWindow>>
              ELSE /\ lToDelete' = supabaseRecent \ current
                   /\ lLocalWindow' = supabaseRecent
                   /\ lUpstreamWindow' = WindowIds(lMode, lSince)
                   /\ lPc' = "sbDeleteByIds"
                   /\ UNCHANGED lLedger
    /\ UNCHANGED <<lUpstream, lNow, lStore, lRuns, lMode, lSince, lPage, lMaxSeen,
                   lTotalUpserted, lFeedFailed, lDeleted, lResumeBefore>>
    /\ UNCHANGED <<upsertVars, fetchVars, jobVars, replayVars, pagerVars, scoreVars, mvpVars, exitVars, paceVars, bootVars, normVars, loginVars, resumeVars, scrollVars, assignVars>>

\* if (deletedIds.length) await sbDeleteByIds(OBS_TABLE, deletedIds)
SbDeleteByIds ==
    /\ lPc = "sbDeleteByIds"
    /\ IF lToDelete = {}
       THEN /\ lPc' = "recordRun"
            /\ UNCHANGED <<lStore, lDeleted, lLedger>>
       ELSE \E deleteOk \in BOOLEAN :
               IF deleteOk
               THEN /\ lStore' = { r \in lStore : r.id \notin lToDelete }
                    /\ lDeleted' = { r \in lStore : r.id \in lToDelete }
                    /\ lPc' = "recordRun"
                    /\ UNCHANGED lLedger
               ELSE /\ MainCatch
                    /\ UNCHANGED <<lStore, lDeleted>>
    /\ UNCHANGED <<lUpstream, lNow, lRuns, lMode, lSince, lPage, lMaxSeen,
                   lTotalUpserted, lFeedFailed, lToDelete, lLocalWindow,
                   lUpstreamWindow, lResumeBefore>>
    /\ UNCHANGED <<upsertVars, fetchVars, jobVars, replayVars, pagerVars, scoreVars, mvpVars, exitVars, paceVars, bootVars, normVars, loginVars, resumeVars, scrollVars, assignVars>>

\* await recordRun(maxSeenIso, {...}): one new row of score_runs.
RecordRun ==
    /\ lPc = "recordRun"
    /\ \E writeOk \in BOOLEAN :
          IF writeOk
          THEN /\ lLedger' = Append(lLedger, RunRow)
               /\ lPc' = "done"
          ELSE MainCatch
    /\ UNCHANGED <<lUpstream, lNow, lStore, lRuns, lMode, lSince, lPage, lMaxSeen,
                   lTotalUpserted, lFeedFailed, lToDelete, lDeleted,
                   lLocalWindow, lUpstreamWindow, lResumeBefore>>
    /\ UNCHANGED <<upsertVars, fetchVars, jobVars, replayVars, pagerVars, scoreVars, mvpVars, exitVars, paceVars, bootVars, normVars, loginVars, resumeVars, scrollVars, assignVars>>

InitLedger ==
    /\ lUpstream = [id \in UpstreamIds |-> Fresh]
    /\ lNow = 0
    /\ lStore = {}
    /\ lLedger = <<>>
    /\ lRuns = 0
    /\ lMode = "TRIP"
    /\ lPc = "idle"
    /\ lSince = 0
    /\ lPage = 1
    /\ lMaxSeen = 0
    /\ lTotalUpserted = 0
    /\ lFeedFailed = FALSE
    /\ lToDelete = {}
    /\ lDeleted = {}
    /\ lLocalWindow = {}
    /\ lUpstreamWindow = {}
    /\ lResumeBefore = 0
    /\ UpsertIdle /\ FetchIdle /\ JobIdle /\ ReplayIdle /\ PagerIdle /\ ScoreIdle /\ MvpIdle /\ ExitIdle /\ PaceIdle /\ BootIdle /\ NormIdle /\ LoginIdle /\ ResumeIdle /\ ScrollIdle /\ AssignIdle

NextLedger ==
    \/ UpstreamTouch
    \/ UpstreamRemove
    \/ LedgerStart
    \/ FetchUpdatesPage
    \/ FetchDeletedIdsSince
    \/ ReconcileDeletes
    \/ SbDeleteByIds
    \/ RecordRun

SpecLedger == InitLedger /\ [][NextLedger]_vars

\* C2: in the ledger, written by the successful runs in their order, the
\* watermark inat_updated_through_utc of a run is never less than the
\* watermark of the run before it.
C2_WatermarkNeverDecreases ==
    \A i \in 1 .. (Len(lLedger) - 1) :
        lLedger[i].inat_updated_through_utc <= lLedger[i + 1].inat_updated_through_utc

\* C3: when the deletion feed failed and the deletion step has completed,
\* the rows the run deleted are exactly those stored with updated_at at or
\* after since whose id the upstream did not hold in the same window.
C3_ReconcileDeletesExactly ==
    (lFeedFailed /\ lPc \in {"recordRun", "done"}) =>
        { r.id : r \in lDeleted } = lLocalWindow \ lUpstreamWindow

\* C4: the rows a run deletes by reconciliation all match the filter of
\* the run's mode and have updated_at at or after the run's since.
C4_DeletesOnlyInWindow ==
    lFeedFailed =>
        \A r \in lDeleted : MatchesFilter(r.id, lMode) /\ r.updated_at >= lSince

\* C5: a run writes its ledger row once, as its last step, after the
\* update phase and the deletion phase: no row of the run exists before the
\* run is done, exactly one when it is, none when it failed; and after a
\* failed run the resume point is the one the run started from.
C5_RecordRunOnceAtEnd ==
    LET RowsOfRun(n) == { i \in DOMAIN lLedger : lLedger[i].run = n }
    IN  /\ \A n \in 1 .. lRuns : Cardinality(RowsOfRun(n)) <= 1
        /\ lPc = "done" => Cardinality(RowsOfRun(lRuns)) = 1
        /\ lPc # "done" => RowsOfRun(lRuns) = {}
        /\ lPc = "failed" => getSinceTimestamp(lLedger) = lResumeBefore

\* The second run failed after it had upserted rows, the first run having
\* written its ledger row.
C5_Witness ==
    /\ lPc = "failed"
    /\ lRuns = 2
    /\ lTotalUpserted > 0
    /\ Len(lLedger) = 1
    /\ lLedger[1].run = 1

\* C13: while a run works (the ledger is still the one it started from) its
\* since is the watermark of the most recent ledger run minus the 30-second
\* overlap, and the epoch minus the overlap when the ledger holds no run.
C13_SinceFromMostRecentRun ==
    lPc \in {"fetchUpdates", "fetchDeletedIdsSince", "reconcileDeletes",
             "sbDeleteByIds", "recordRun"}
        => LET MostRecentThrough ==
                   IF Len(lLedger) = 0 THEN 0
                   ELSE lLedger[Len(lLedger)].inat_updated_through_utc
           IN  lSince = MostRecentThrough - SAFETY_OVERLAP_SECONDS

\* C29: the resume point getSinceTimestamp computes from the ledger, the
\* greatest watermark minus the overlap, never decreases from one state of
\* the ledger to the next, runs that fetched no record included.
C29_ResumePointNeverDecreases ==
    [][getSinceTimestamp(lLedger') >= getSinceTimestamp(lLedger)]_vars

\* C30: a row that reconciliation deleted is not a row whose id the
\* upstream still returned for the window when the run reconciled.
C30_ReconcileSparesUpstreamRows ==
    lFeedFailed => \A r \in lDeleted : r.id \notin lUpstreamWindow

(***************************************************************************)
(* The paging loops: fetchUpdates of the ledger-based ingest with the      *)
(* recordRun that follows it, the loop of main of unnamed/part_010, and    *)
(* inatObsPager of ingest.mjs with the loop of processAssignment that      *)
(* consumes it.  The listing stands still while it is paged.               *)
(***************************************************************************)
\* Bounds of the model.
PAGE_SIZE == 2          \* scaled from per_page = 200
PAGE_CAP == 4           \* scaled from MAX_PAGES = 200
MaxRecords == 5         \* records of the listing: pages of 2, 2 and 1
MaxPageRequests == 5    \* page requests of inatObsPager, its 429 retries included

\* null, as a time no record carries.
Null == 0 - 999999

\* The records with updated_at after since, ascending.
ListingOf(n, since) ==
    [i \in 1 .. n |-> [id |-> i, updated_at |-> since + 30 + 10 * i]]

\* The results of a page of the listing.
ResultsOf(page) ==
    SubSeq(pgUpstream, (page - 1) * PAGE_SIZE + 1,
           Min(page * PAGE_SIZE, Len(pgUpstream)))

\* if (m.updated_at_utc && (!maxUpdated || m.updated_at_utc > maxUpdated))
RECURSIVE MaxUpdated(_, _, _)
MaxUpdated(mapped, i, maxUpdated) ==
    IF i > Len(mapped) THEN maxUpdated
    ELSE MaxUpdated(mapped, i + 1,
                    IF maxUpdated = Null \/ mapped[i].updated_at > maxUpdated
                    THEN mapped[i].updated_at ELSE maxUpdated)

\* What every turn of a loop does to the record of its requests.
PageRequested(results, answered) ==
    /\ pgRequests' = pgRequests + 1
    /\ pgAfterEnd' = (pgAfterEnd \/ pgEnded)
    /\ pgEnded' = (pgEnded \/ (answered /\ Len(results) < PAGE_SIZE))
    /\ pgFetched' = pgFetched \o results

\* One turn of while (page <= MAX_PAGES) of fetchUpdates.
FetchUpdatesTurn ==
    /\ pgLoop = "fetchUpdates"
    /\ pgPc = "paging"
    /\ \E data \in FetchJsonOutcomes, writeOk \in BOOLEAN :
          LET results == IF data = "json" THEN ResultsOf(pgPage) ELSE <<>>
          IN  /\ PageRequested(results, data = "json")
              /\ IF data = "throw"
                 THEN /\ pgPc' = "failed"
                      /\ UNCHANGED <<pgPage, pgTotalUpserted, pgMaxSeen>>
                 ELSE IF Len(results) = 0
                 THEN /\ pgPc' = "recordRun"
                      /\ UNCHANGED <<pgPage, pgTotalUpserted, pgMaxSeen>>
                 ELSE IF ~writeOk
                 THEN /\ pgPc' = "failed"
                      /\ UNCHANGED <<pgPage, pgTotalUpserted, pgMaxSeen>>
                 ELSE /\ pgTotalUpserted' = pgTotalUpserted + Len(results)
                      /\ pgMaxSeen' = MaxUpdatedAt(results, 1, pgMaxSeen)
                      /\ IF Len(results) < PAGE_SIZE
                         THEN pgPc' = "recordRun" /\ UNCHANGED pgPage
                         ELSE /\ pgPage' = pgPage + 1
                              /\ pgPc' = IF pgPage + 1 <= PAGE_CAP
                                         THEN "paging" ELSE "recordRun"
    /\ UNCHANGED <<pgLoop, pgSince, pgUpstream, pgLedger>>
    /\ UNCHANGED <<upsertVars, fetchVars, jobVars, replayVars, ledgerVars, scoreVars, mvpVars, exitVars, paceVars, bootVars, normVars, loginVars, resumeVars, scrollVars, assignVars>>

\* const maxSeenIso = maxSeen || sinceIso; await recordRun(maxSeenIso, ...)
PagerRecordRun ==
    /\ pgLoop = "fetchUpdates"
    /\ pgPc = "recordRun"
    /\ \E writeOk \in BOOLEAN :
          IF writeOk
          THEN /\ pgLedger' = Append(pgLedger,
                      [inat_updated_through_utc |-> pgMaxSeen,
                       ingested_count |-> pgTotalUpserted])
               /\ pgPc' = "done"
          ELSE pgPc' = "failed" /\ UNCHANGED pgLedger
    /\ UNCHANGED <<pgLoop, pgSince, pgUpstream, pgPage, pgRequests, pgEnded,
                   pgAfterEnd, pgTotalUpserted, pgMaxSeen, pgFetched>>
    /\ UNCHANGED <<upsertVars, fetchVars, jobVars, replayVars, ledgerVars, scoreVars, mvpVars, exitVars, paceVars, bootVars, normVars, loginVars, resumeVars, scrollVars, assignVars>>

\* One turn of while (page <= MAX_PAGES) of main of part_010: maxSeenUpdatedAt
\* is tracked before the chunks are upserted.
MainLoopTurn ==
    /\ pgLoop = "main"
    /\ pgPc = "paging"
    /\ \E data \in FetchJsonOutcomes, writeOk \in BOOLEAN :
          LET results == IF data = "json" THEN ResultsOf(pgPage) ELSE <<>>
          IN  /\ PageRequested(results, data = "json")
              /\ IF data = "throw"
                 THEN /\ pgPc' = "failed"
                      /\ UNCHANGED <<pgPage, pgTotalUpserted, pgMaxSeen>>
                 ELSE IF Len(results) = 0
                 THEN /\ pgPc' = "done"
                      /\ UNCHANGED <<pgPage, pgTotalUpserted, pgMaxSeen>>
                 ELSE /\ pgMaxSeen' = MaxUpdated(results, 1, pgMaxSeen)
                      /\ IF ~writeOk
                         THEN /\ pgPc' = "failed"
                              /\ UNCHANGED <<pgPage, pgTotalUpserted>>
                         ELSE /\ pgTotalUpserted' = pgTotalUpserted + Len(results)
                              /\ IF Len(results) < PAGE_SIZE
                                 THEN pgPc' = "done" /\ UNCHANGED pgPage
                                 ELSE /\ pgPage' = pgPage + 1
                                      /\ pgPc' = IF pgPage + 1 <= PAGE_CAP
                                                 THEN "paging" ELSE "done"
    /\ UNCHANGED <<pgLoop, pgSince, pgUpstream, pgLedger>>
    /\ UNCHANGED <<upsertVars, fetchVars, jobVars, replayVars, ledgerVars, scoreVars, mvpVars, exitVars, paceVars, bootVars, normVars, loginVars, resumeVars, scrollVars, assignVars>>

\* One turn of while (true) of inatObsPager and, when it yields, one turn of
\* for await (const page of inatObsPager(params)) of processAssignment.
InatObsPagerTurn ==
    /\ pgLoop = "inatObsPager"
    /\ pgPc = "paging"
    /\ \E answer \in {"json", "429", "throw"}, writeOk \in BOOLEAN :
          LET rows == IF answer = "json" THEN ResultsOf(pgPage) ELSE <<>>
          IN  /\ answer = "429" => pgRequests + 1 < MaxPageRequests
              /\ PageRequested(rows, answer = "json")
              /\ IF answer = "throw"
                 THEN /\ pgPc' = "failed"
                      /\ UNCHANGED <<pgPage, pgTotalUpserted, pgMaxSeen>>
                 ELSE IF answer = "429"
                 THEN UNCHANGED <<pgPc, pgPage, pgTotalUpserted, pgMaxSeen>>
                 ELSE IF Len(rows) = 0
                 THEN /\ pgPc' = "done"
                      /\ UNCHANGED <<pgPage, pgTotalUpserted, pgMaxSeen>>
                 ELSE /\ pgTotalUpserted' = pgTotalUpserted + Len(rows)
                      /\ pgMaxSeen' = MaxUpdated(rows, 1, pgMaxSeen)
                      /\ IF writeOk
                         THEN pgPage' = pgPage + 1 /\ UNCHANGED pgPc
                         ELSE pgPc' = "failed" /\ UNCHANGED pgPage
    /\ UNCHANGED <<pgLoop, pgSince, pgUpstream, pgLedger>>
    /\ UNCHANGED <<upsertVars, fetchVars, jobVars, replayVars, ledgerVars, scoreVars, mvpVars, exitVars, paceVars, bootVars, normVars, loginVars, resumeVars, scrollVars, assignVars>>

InitPager ==
    /\ pgLoop \in {"fetchUpdates", "main", "inatObsPager"}
    /\ pgPc = "paging"
    \* since of a fresh run (the epoch minus the overlap) and of a later run
    /\ pgSince \in {0 - SAFETY_OVERLAP_SECONDS, 70}
    /\ \E n \in 0 .. MaxRecords : pgUpstream = ListingOf(n, pgSince)
    /\ pgPage = 1
    /\ pgRequests = 0
    /\ pgEnded = FALSE
    /\ pgAfterEnd = FALSE
    /\ pgTotalUpserted = 0
    /\ pgMaxSeen = IF pgLoop = "inatObsPager" THEN Null ELSE pgSince
    /\ pgFetched = <<>>
    /\ pgLedger = <<>>
    /\ UpsertIdle /\ FetchIdle /\ JobIdle /\ ReplayIdle /\ LedgerIdle /\ ScoreIdle /\ MvpIdle /\ ExitIdle /\ PaceIdle /\ BootIdle /\ NormIdle /\ LoginIdle /\ ResumeIdle /\ ScrollIdle /\ AssignIdle

NextPager ==
    \/ FetchUpdatesTurn
    \/ PagerRecordRun
    \/ MainLoopTurn
    \/ InatObsPagerTurn

SpecPager == InitPager /\ [][NextPager]_vars

\* C11: no page request is issued after a page has come back with fewer rows
\* than the page size or with no row.
C11_NoRequestAfterShortPage == ~pgAfterEnd

\* C12: the ledger row of a run of fetchUpdates counts the records the
\* upstream returned and, when there is one, carries the greatest updated_at
\* among them; after pages of PAGE_SIZE, PAGE_SIZE and fewer records the
\* loop has issued three requests and the row counts them all.
C12_CountAndWatermark ==
    LET RECURSIVE GreatestUpdatedAt(_)
        GreatestUpdatedAt(records) ==
            IF Len(records) = 1 THEN records[1].updated_at
            ELSE Max(records[1].updated_at, GreatestUpdatedAt(Tail(records)))
    IN
    (pgLoop = "fetchUpdates" /\ pgPc = "done") =>
        /\ Len(pgLedger) = 1
        /\ pgLedger[1].ingested_count = Len(pgFetched)
        /\ Len(pgFetched) > 0 =>
              pgLedger[1].inat_updated_through_utc = GreatestUpdatedAt(pgFetched)
        /\ (pgFetched = pgUpstream /\ Len(pgUpstream) = 2 * PAGE_SIZE + 1) =>
              pgRequests = 3

\* A fresh run fetched pages of PAGE_SIZE, PAGE_SIZE and one record and
\* wrote its ledger row.
C12_Witness ==
    /\ pgLoop = "fetchUpdates"
    /\ pgPc = "done"
    /\ pgSince = 0 - SAFETY_OVERLAP_SECONDS
    /\ pgRequests = 3
    /\ Len(pgFetched) = 2 * PAGE_SIZE + 1
    /\ pgLedger[1].ingested_count = 2 * PAGE_SIZE + 1
    /\ pgLedger[1].inat_updated_through_utc = pgUpstream[Len(pgUpstream)].updated_at

\* ---- the same loops over a listing that moves ----
MaxPagerEdits == 1      \* edits of upstream records while a loop pages

\* A record of the listing is edited upstream while the loop is between two
\* page requests: its updated_at becomes the newest, and with order_by =
\* updated_at, order = asc it moves to the end of the listing.
UpstreamEdit ==
    /\ pgPc = "paging"
    /\ Len(pgUpstream) > 0
    /\ pgUpstream[Len(pgUpstream)].updated_at
          < pgSince + 30 + 10 * MaxRecords + 40 * MaxPagerEdits
    /\ \E i \in DOMAIN pgUpstream :
          pgUpstream' =
              Append([k \in 1 .. (Len(pgUpstream) - 1) |->
                         IF k < i THEN pgUpstream[k] ELSE pgUpstream[k + 1]],
                     [id |-> pgUpstream[i].id,
                      updated_at |-> pgUpstream[Len(pgUpstream)].updated_at + 40])
    /\ UNCHANGED <<pgLoop, pgPc, pgSince, pgPage, pgRequests, pgEnded, pgAfterEnd,
                   pgTotalUpserted, pgMaxSeen, pgFetched, pgLedger>>
    /\ UNCHANGED <<upsertVars, fetchVars, jobVars, replayVars, ledgerVars, scoreVars, mvpVars, exitVars, paceVars, bootVars, normVars, loginVars, resumeVars, scrollVars, assignVars>>

SpecPagerLive == InitPager /\ [][NextPager \/ UpstreamEdit]_vars

\* C31: when a run of fetchUpdates or of main of part_010 has ended, every
\* record of the listing (all match the filter and are at or after since)
\* whose updated_at is below the resume point of the next run, the greatest
\* updated_at the run has seen minus the overlap, has been fetched and
\* upserted by the run as the upstream has it.
C31_NoRecordLostToPageShift ==
    (pgLoop \in {"fetchUpdates", "main"} /\ pgPc = "done") =>
        \A i \in DOMAIN pgUpstream :
            pgUpstream[i].updated_at < pgMaxSeen - SAFETY_OVERLAP_SECONDS
                => \E k \in DOMAIN pgFetched : pgFetched[k] = pgUpstream[i]

(***************************************************************************)
(* Scoring of one assignment, ingest.mjs: mapLinks and noveltyKey, the     *)
(* rank_novelty_for_assignment procedure of the database, loadJoined,      *)
(* scoreAll and writeScores.  Times are minutes since the epoch,           *)
(* coordinates thousandths of a degree, points thousandths of a point.     *)
(***************************************************************************)
\* Bounds of the model.
MaxScoreRows == 3       \* observations of the assignment
MaxScoreRuns == 2       \* invocations of the pipeline

NoStudent == "null"     \* student_id: null

\* student_identities (provider = inat): one student known by external_id,
\* one by external_username only.
Identities ==
    { [student_id |-> "s1", external_id |-> 101, external_username |-> ""],
      [student_id |-> "s2", external_id |-> Null, external_username |-> "Ben"] }

ToLowerCase(str) == IF str = "Ben" THEN "ben" ELSE str

\* The observations the pager can return for the assignment, as mapObs maps
\* them: three users (101 known by id, "ben" by login, 103 unknown) and
\* records that tie in time, share or miss a rounded position, lack a taxon
\* or a position, and fall on either side of a local midnight.  The query
\* carries d1 and d2, so every record has an observed time.
Observation(id, userId, login, taxon, rank, grade, observed, lat) ==
    [inat_obs_id |-> id, user_id |-> userId, user_login |-> login,
     taxon_id |-> taxon, taxon_rank |-> rank, quality_grade |-> grade,
     observed_at_utc |-> observed, created_at_utc |-> 700,
     latitude |-> lat, longitude |-> IF lat = Null THEN Null ELSE 5000]

Catalog ==
    { Observation(1, 101, "ana", 1, "species", "research", 0, 1234),
      Observation(2, 101, "ana", 1, "species", "research", 5, 1231),
      Observation(3, 101, "ana", 1, "species", "needs_id", 120, 1234),
      Observation(4, 101, "ana", 1, "species", "casual", 5, 1234),
      Observation(5, 101, "ana", 2, "genus", "research", 5, 1234),
      Observation(6, 101, "ana", 1, "species", "research", 50, 1236),
      Observation(7, 102, "ben", 1, "species", "research", 600, 1234),
      Observation(8, 103, "cy", 1, "species", "research", 1, 1234),
      Observation(9, 102, "ben", 0, "", "casual", 400, Null) }

\* The rubric the code falls back on, and one with a two-entry rank table.
Rubrics ==
    { [novelty_enabled |-> TRUE,
       rank_points |-> <<5000, 3000, 2000, 1000, 1000, 500>>, after_points |-> 200,
       window_minutes |-> 60, penalty_each |-> 1000, time_bucket_minutes |-> 360],
      [novelty_enabled |-> TRUE,
       rank_points |-> <<5000, 3000>>, after_points |-> 200,
       window_minutes |-> 60, penalty_each |-> 1000, time_bucket_minutes |-> 360] }

\* Number(n.toFixed(2)) of a coordinate: hundredths of a degree.
ToFixed2(n) == (n + 5) \div 10

\* const isSL = r => ["species","subspecies","variety","form"].includes(r || "")
isSL(rank) == rank \in {"species", "subspecies", "variety", "form"}

\* noveltyKey(rubric, obs); null is <<>>.
noveltyKey(rubric, obs) ==
    LET rankOk == isSL(obs.taxon_rank)
        qualOk == obs.quality_grade \in {"needs_id", "research"}
        t == IF obs.observed_at_utc # Null THEN obs.observed_at_utc
             ELSE obs.created_at_utc
    IN  IF ~rubric.novelty_enabled THEN <<>>
        ELSE IF ~(rankOk /\ qualOk) THEN <<>>
        ELSE IF obs.latitude = Null \/ obs.longitude = Null THEN <<>>
        ELSE <<obs.taxon_id, ToFixed2(obs.latitude), ToFixed2(obs.longitude),
               t \div rubric.time_bucket_minutes>>

\* One row of mapLinks(assignmentId, idsMap, rubric, mapped).
mapLink(rubric, o) ==
    LET \* idsMap.id.get(String(o.user_id))
        byId ==
            IF \E r \in Identities : r.external_id # Null /\ r.external_id = o.user_id
            THEN (CHOOSE r \in Identities : r.external_id = o.user_id).student_id
            ELSE NoStudent
        \* idsMap.login.get(String(o.user_login || "").toLowerCase())
        byUser ==
            IF \E r \in Identities :
                  /\ r.external_username # ""
                  /\ ToLowerCase(r.external_username) = ToLowerCase(o.user_login)
            THEN (CHOOSE r \in Identities :
                      /\ r.external_username # ""
                      /\ ToLowerCase(r.external_username) = ToLowerCase(o.user_login)).student_id
            ELSE NoStudent
    IN  [inat_obs_id |-> o.inat_obs_id,
         \* byId || byUser || null
         student_id |-> IF byId # NoStudent THEN byId ELSE byUser,
         included |-> TRUE,
         novelty_key |-> noveltyKey(rubric, o)]

\* The recorded time of an observation.
RecordedAt(o) ==
    IF o.observed_at_utc # Null THEN o.observed_at_utc ELSE o.created_at_utc

\* The observations row of a link.
ObservationOf(link) ==
    CHOOSE o \in { scObs[i] : i \in DOMAIN scObs } : o.inat_obs_id = link.inat_obs_id

\* rank_novelty_for_assignment(p_assignment): within a novelty bucket the
\* links are ranked by recorded time ascending, and by id where times tie.
RankInBucket(link, links) ==
    IF link.novelty_key = <<>> THEN Null
    ELSE 1 + Cardinality({ m \in links :
                 /\ m.novelty_key = link.novelty_key
                 /\ \/ RecordedAt(ObservationOf(m)) < RecordedAt(ObservationOf(link))
                    \/ /\ RecordedAt(ObservationOf(m)) = RecordedAt(ObservationOf(link))
                       /\ m.inat_obs_id < link.inat_obs_id })

\* Mutant of Resolved: every link is scored.
Resolved_Always(r) == TRUE

\* if (!r.student_id) continue
Resolved(r) == r.student_id \notin {NoStudent, ""}

\* Mutant of RankPoints: the table is read one place too far.
RankPoints_OffByOne(rubric, rank) ==
    LET idx == Max(1, rank)
    IN  IF idx + 1 <= Len(rubric.rank_points) THEN rubric.rank_points[idx + 1]
        ELSE rubric.after_points

\* const idx = Math.max(1, Number(r.novelty_rank)); rankPts[idx - 1] ?? afterPts
RankPoints(rubric, rank) ==
    LET idx == Max(1, rank)
    IN  IF idx <= Len(rubric.rank_points) THEN rubric.rank_points[idx]
        ELSE rubric.after_points

\* st.obs of a student: the observations of the student's rows, in the order
\* of rows.
RECURSIVE StudentObs(_, _, _)
StudentObs(rows, sid, i) ==
    IF i > Len(rows) THEN <<>>
    ELSE (IF Resolved(rows[i]) /\ rows[i].student_id = sid
          THEN <<rows[i].observations>> ELSE <<>>) \o StudentObs(rows, sid, i + 1)

\* st.noveltySum of a student.
RECURSIVE NoveltySum(_, _, _, _)
NoveltySum(rows, sid, i, rubric) ==
    IF i > Len(rows) THEN 0
    ELSE (IF Resolved(rows[i]) /\ rows[i].student_id = sid /\ rows[i].novelty_rank # Null
          THEN RankPoints(rubric, rows[i].novelty_rank) ELSE 0)
         + NoveltySum(rows, sid, i + 1, rubric)

\* Array.prototype.sort is stable: an element goes behind those that do not
\* compare greater.
RECURSIVE InsertByObservedAt(_, _)
InsertByObservedAt(sorted, o) ==
    IF sorted = <<>> THEN <<o>>
    ELSE IF sorted[Len(sorted)].observed_at_utc <= o.observed_at_utc
    THEN Append(sorted, o)
    ELSE Append(InsertByObservedAt(SubSeq(sorted, 1, Len(sorted) - 1), o),
                sorted[Len(sorted)])

RECURSIVE SortByObservedAt(_, _)
SortByObservedAt(obs, n) ==
    IF n = 0 THEN <<>>
    ELSE InsertByObservedAt(SortByObservedAt(obs, n - 1), obs[n])

\* st.obs.filter(o => o.observed_at_utc)
RECURSIVE WithObservedAt(_, _)
WithObservedAt(obs, i) ==
    IF i > Len(obs) THEN <<>>
    ELSE (IF obs[i].observed_at_utc # Null THEN <<obs[i]>> ELSE <<>>)
         \o WithObservedAt(obs, i + 1)

SortedObs(obs) ==
    SortByObservedAt(WithObservedAt(obs, 1), Len(WithObservedAt(obs, 1)))

\* The test of one pair a, b of the loop of duplicates.
IsDuplicatePair(a, b, rubric) ==
    /\ a.taxon_id # 0 /\ b.taxon_id # 0 /\ a.taxon_id = b.taxon_id
    /\ b.observed_at_utc - a.observed_at_utc <= rubric.window_minutes
    /\ a.latitude # Null /\ b.latitude # Null
    /\ a.longitude # Null /\ b.longitude # Null
    /\ ToFixed2(a.latitude) = ToFixed2(b.latitude)
    /\ ToFixed2(a.longitude) = ToFixed2(b.longitude)

\* Mutant of DupLoop: every earlier element is compared, not the one before.
RECURSIVE DupLoop_AllPairs(_, _, _)
DupLoop_AllPairs(obs, i, rubric) ==
    IF i > Len(obs) THEN 0
    ELSE Cardinality({ j \in 1 .. (i - 1) : IsDuplicatePair(obs[j], obs[i], rubric) })
         + DupLoop_AllPairs(obs, i + 1, rubric)

\* Mutant of DupLoop: the loop starts at the first element and compares it
\* with itself.
DupLoop_FromFirst(obs, i, rubric) ==
    Cardinality({ k \in 1 .. Len(obs) :
                    IsDuplicatePair(obs[IF k = 1 THEN 1 ELSE k - 1], obs[k], rubric) })

\* for (let i = 1; i < obs.length; i++) { const a = obs[i-1], b = obs[i]; ... }
RECURSIVE DupLoop(_, _, _)
DupLoop(obs, i, rubric) ==
    IF i > Len(obs) THEN 0
    ELSE (IF IsDuplicatePair(obs[i - 1], obs[i], rubric) THEN 1 ELSE 0)
         + DupLoop(obs, i + 1, rubric)

\* Math.log(x + 1), in thousandths.
ln1(x) ==
    IF x = 0 THEN 0
    ELSE <<693, 1099, 1386, 1609, 1792, 1946, 2079, 2197>>[x]

\* Mutant of localDayCR: the day is taken in UTC.
localDayCR_Utc(t) ==
    IF t = Null THEN 0 \div 1440 ELSE t \div 1440

\* localDayCR(iso): the calendar day eight hours behind UTC; new Date(null)
\* is the epoch.
localDayCR(t) ==
    IF t = Null THEN (0 - 480) \div 1440 ELSE (t - 480) \div 1440

\* Number(n.toFixed(2)) of a total: hundredths of a point.
round2(n) == (n + 5) \div 10

\* The entry of one student, lines 231-257.
EntryOf(rows, sid, rubric) ==
    LET obs == StudentObs(rows, sid, 1)
        O  == Len(obs)
        U  == Cardinality({ obs[i].taxon_id : i \in DOMAIN obs } \ {0})
        RG == Cardinality({ i \in DOMAIN obs : obs[i].quality_grade = "research" })
        SL == Cardinality({ i \in DOMAIN obs : isSL(obs[i].taxon_rank) })
        D  == Cardinality({ localDayCR(obs[i].observed_at_utc) : i \in DOMAIN obs })
        noveltySum == NoveltySum(rows, sid, 1, rubric)
        dupCount == DupLoop(SortedObs(obs), 2, rubric)
        total == 6 * ln1(O) + 7 * ln1(U) + 1500 * RG + 500 * SL + 3000 * D
                 + noveltySum - dupCount * rubric.penalty_each
    IN  [O |-> O, U |-> U, RG |-> RG, SL |-> SL, D |-> D,
         novelty_sum |-> noveltySum, duplicates |-> dupCount,
         rarity_sum |-> 0, assists_count |-> 0, assists_score |-> 0,
         total_points |-> round2(total)]

\* scoreAll(rows, rubric): the Map byStudent.
scoreAll(rows, rubric) ==
    LET students == { rows[i].student_id : i \in { j \in DOMAIN rows : Resolved(rows[j]) } }
    IN  [sid \in students |-> EntryOf(rows, sid, rubric)]

\* for await (const page of inatObsPager(params)) { ... }
UpsertLinks ==
    /\ scPc = "upsertLinks"
    /\ scLinks' =
          { l \in scLinks : \A i \in DOMAIN scObs : scObs[i].inat_obs_id # l.inat_obs_id }
          \cup { [inat_obs_id |-> mapLink(scRubric, scObs[i]).inat_obs_id,
                  student_id |-> mapLink(scRubric, scObs[i]).student_id,
                  included |-> mapLink(scRubric, scObs[i]).included,
                  novelty_key |-> mapLink(scRubric, scObs[i]).novelty_key,
                  \* a stored row keeps the columns the payload does not carry
                  novelty_rank |->
                      IF \E l \in scLinks : l.inat_obs_id = scObs[i].inat_obs_id
                      THEN (CHOOSE l \in scLinks :
                                l.inat_obs_id = scObs[i].inat_obs_id).novelty_rank
                      ELSE Null]
                 : i \in DOMAIN scObs }
    /\ scPc' = "rankNovelty"
    /\ UNCHANGED <<scObs, scRubric, scRows, scByStudent, scPrev, scEntries, scRuns,
                   scVariant, scOutcomes>>
    /\ UNCHANGED <<upsertVars, fetchVars, jobVars, replayVars, ledgerVars, pagerVars, mvpVars, exitVars, paceVars, bootVars, normVars, loginVars, resumeVars, scrollVars, assignVars>>

\* await rankNoveltyForAssignment(ASSIGN)
RankNoveltyForAssignment ==
    /\ scPc = "rankNovelty"
    /\ scLinks' = { [l EXCEPT !.novelty_rank = RankInBucket(l, scLinks)] : l \in scLinks }
    /\ scPc' = "loadJoined"
    /\ UNCHANGED <<scObs, scRubric, scRows, scByStudent, scPrev, scEntries, scRuns,
                   scVariant, scOutcomes>>
    /\ UNCHANGED <<upsertVars, fetchVars, jobVars, replayVars, ledgerVars, pagerVars, mvpVars, exitVars, paceVars, bootVars, normVars, loginVars, resumeVars, scrollVars, assignVars>>

\* const rows = await loadJoined(ASSIGN): the query has no order=, the rows
\* come in any order.
LoadJoined ==
    /\ scPc = "loadJoined"
    /\ LET \* a row of select=*,observations(*)
           Joined(link) ==
               [inat_obs_id |-> link.inat_obs_id, student_id |-> link.student_id,
                included |-> link.included, novelty_key |-> link.novelty_key,
                novelty_rank |-> link.novelty_rank, observations |-> ObservationOf(link)]
           links == { l \in scLinks : l.included }
       IN  \E rows \in [1 .. Cardinality(links) -> { Joined(l) : l \in links }] :
              /\ \A i, j \in DOMAIN rows : i # j => rows[i] # rows[j]
              /\ scRows' = rows
    /\ scPc' = "scoreAll"
    /\ UNCHANGED <<scObs, scRubric, scLinks, scByStudent, scPrev, scEntries, scRuns,
                   scVariant, scOutcomes>>
    /\ UNCHANGED <<upsertVars, fetchVars, jobVars, replayVars, ledgerVars, pagerVars, mvpVars, exitVars, paceVars, bootVars, normVars, loginVars, resumeVars, scrollVars, assignVars>>

\* const byStudent = scoreAll(rows, rubric)
ScoreAll ==
    /\ scPc = "scoreAll"
    /\ scByStudent' = scoreAll(scRows, scRubric)
    /\ scPrev' = scByStudent
    /\ scPc' = "writeScores"
    /\ UNCHANGED <<scObs, scRubric, scLinks, scRows, scEntries, scRuns, scVariant,
                   scOutcomes>>
    /\ UNCHANGED <<upsertVars, fetchVars, jobVars, replayVars, ledgerVars, pagerVars, mvpVars, exitVars, paceVars, bootVars, normVars, loginVars, resumeVars, scrollVars, assignVars>>

\* Mutant of NewRunId: a run is written under the id of the run before it.
NewRunId_Reused == Max(scRuns, 1)

\* const runId = json?.[0]?.id: the id the store gave the new score_runs row.
NewRunId == scRuns + 1

\* await writeScores(ASSIGN, byStudent, ...): POST a score_runs row, read its
\* id from the answer, POST the entries built from the Map.  Either request
\* can throw; the upsert generation sends no Prefer: return=representation, so
\* the answer to its first POST may carry no row.  upsert(..., "id") keeps one
\* row for each value of keyFn, and keyFn is "" for every entry (none has an
\* id): the row kept is the Map's last, the student whose first row comes
\* last.
WriteScores ==
    /\ scPc = "writeScores"
    /\ \E outcome \in {"ok", "runFailed", "noRunId", "entriesFailed"} :
          LET entries ==
                  { [id |-> <<scRuns + 1, sid>>, score_run_id |-> NewRunId,
                     student_id |-> sid,
                     total_points |-> scByStudent[sid].total_points,
                     breakdown_json |-> scByStudent[sid]] : sid \in DOMAIN scByStudent }
              FirstRow(sid) ==
                  CHOOSE i \in DOMAIN scRows :
                      /\ scRows[i].student_id = sid
                      /\ \A j \in 1 .. (i - 1) : scRows[j].student_id # sid
              cleanRows ==
                  IF scVariant = "upsert"
                  THEN { e \in entries : \A f \in entries :
                             FirstRow(f.student_id) <= FirstRow(e.student_id) }
                  ELSE entries
          IN  /\ outcome = "noRunId" => scVariant = "upsert"
              /\ outcome = "entriesFailed" => entries # {}
              \* what the invocation left: nothing, a run without entries
              \* (either throw after the first POST), or a run with entries
              /\ scOutcomes' = Append(scOutcomes,
                                      IF outcome \in {"noRunId", "entriesFailed"}
                                      THEN "runOnly" ELSE outcome)
              /\ scEntries' = IF outcome = "ok" THEN scEntries \cup cleanRows
                              ELSE scEntries
    /\ scRuns' = scRuns + 1
    \* processAssignment returns or throws: its rows are gone
    /\ scRows' = <<>>
    /\ scPc' = IF scRuns + 1 < MaxScoreRuns THEN "upsertLinks" ELSE "done"
    /\ UNCHANGED <<scObs, scRubric, scLinks, scByStudent, scPrev, scVariant>>
    /\ UNCHANGED <<upsertVars, fetchVars, jobVars, replayVars, ledgerVars, pagerVars, mvpVars, exitVars, paceVars, bootVars, normVars, loginVars, resumeVars, scrollVars, assignVars>>

InitScore ==
    /\ scObs \in { f \in UNION { [1 .. n -> Catalog] : n \in 0 .. MaxScoreRows } :
                      \A i, j \in DOMAIN f : i < j => f[i].inat_obs_id < f[j].inat_obs_id }
    /\ scRubric \in Rubrics
    /\ scLinks = {}
    /\ scRows = <<>>
    /\ scByStudent = <<>>
    /\ scPrev = <<>>
    /\ scEntries = {}
    /\ scRuns = 0
    /\ scVariant \in {"upsert", "post"}
    /\ scOutcomes = <<>>
    /\ scPc = "upsertLinks"
    /\ UpsertIdle /\ FetchIdle /\ JobIdle /\ ReplayIdle /\ LedgerIdle /\ PagerIdle /\ MvpIdle /\ ExitIdle /\ PaceIdle /\ BootIdle /\ NormIdle /\ LoginIdle /\ ResumeIdle /\ ScrollIdle /\ AssignIdle

NextScore ==
    \/ UpsertLinks
    \/ RankNoveltyForAssignment
    \/ LoadJoined
    \/ ScoreAll
    \/ WriteScores

SpecScore == InitScore /\ [][NextScore]_vars

\* C39: in every entry of the Map scoreAll returns, the distinct taxa, the
\* research-grade observations, the observations at species level or below
\* and the days are at most the observations O, the duplicates are at most
\* max(0, O - 1), and O is at least 1.
C39_CountsBoundedByObservations ==
    \A sid \in DOMAIN scByStudent :
        LET e == scByStudent[sid]
        IN  /\ e.O >= 1
            /\ e.U <= e.O /\ e.RG <= e.O /\ e.SL <= e.O /\ e.D <= e.O
            /\ e.duplicates <= Max(0, e.O - 1)

\* An entry of several observations, all but the first of them duplicates,
\* with fewer taxa than observations; and an entry of one observation.
C39_Witness ==
    /\ \E sid \in DOMAIN scByStudent :
          LET e == scByStudent[sid]
          IN e.O >= 2 /\ e.duplicates = e.O - 1 /\ e.U < e.O /\ e.RG >= 1
    /\ \E sid \in DOMAIN scByStudent : scByStudent[sid].O = 1

\* ---- the same pipeline on links that are edited between two syncs ----

\* Between two runs of processAssignment a link is taken out of the scoring
\* by hand: update assignment_observations set included = false.
ExcludeLink ==
    /\ scPc = "upsertLinks"
    /\ scRuns >= 1
    /\ \E l \in scLinks :
          /\ l.included
          /\ scLinks' = (scLinks \ {l}) \cup {[l EXCEPT !.included = FALSE]}
    /\ UNCHANGED <<scObs, scRubric, scRows, scByStudent, scPrev, scEntries, scRuns,
                   scVariant, scOutcomes, scPc>>
    /\ UNCHANGED <<upsertVars, fetchVars, jobVars, replayVars, ledgerVars, pagerVars, mvpVars, exitVars, paceVars, bootVars, normVars, loginVars, resumeVars, scrollVars, assignVars>>

SpecScoreEdited == InitScore /\ [][NextScore \/ ExcludeLink]_vars

\* C38: no step switches the included flag of a stored link from false to
\* true: a sync that fetches the observation of an excluded link again
\* leaves the link excluded.
C38_SyncKeepsIncludedFlag ==
    [][\A l \in scLinks : ~l.included =>
          \A n \in scLinks' : n.inat_obs_id = l.inat_obs_id => ~n.included]_vars

\* C14: with the links, the observations and the rubric unchanged, every
\* invocation of scoreAll followed by writeScores writes the same score
\* entries: the entries of the second run equal those of the first.
C14_RepeatedRunsSameEntries ==
    LET EntriesOfRun(n) ==
            { [student_id |-> e.student_id, total_points |-> e.total_points,
               breakdown_json |-> e.breakdown_json] :
                  e \in { x \in scEntries : x.score_run_id = n } }
    IN  (Len(scOutcomes) >= 2 /\ scOutcomes[1] = "ok" /\ scOutcomes[2] = "ok")
            => EntriesOfRun(2) = EntriesOfRun(1)

\* C15: the entries of scoreAll do not depend on the order in which the store
\* returns the joined rows: after a second load of the same rows, in whatever
\* order, every participant's duplicate count and total are those of the
\* first.
C15_OrderOfRowsIrrelevant ==
    (scPc = "writeScores" /\ scRuns >= 1) =>
        \A sid \in DOMAIN scByStudent :
            /\ sid \in DOMAIN scPrev
            /\ scByStudent[sid].duplicates = scPrev[sid].duplicates
            /\ scByStudent[sid].total_points = scPrev[sid].total_points

\* The ids of the observations joined to a participant.
IdsOf(sid) ==
    { scRows[i].inat_obs_id : i \in { j \in DOMAIN scRows : scRows[j].student_id = sid } }

\* C16: a participant's duplicate count is the number of adjacent pairs, in the
\* participant's records ordered by observed time, of the same taxon, at most
\* the window apart and with the same rounded coordinates; a run of three such
\* records counts 2, and records at 0, 5 and 120 minutes count 1.
C16_DuplicatesAreAdjacentPairs ==
    scPc = "writeScores" =>
        \A sid \in DOMAIN scByStudent :
            LET L == SortedObs(StudentObs(scRows, sid, 1))
                SameTaxonPlaceAndHour(a, b) ==
                    /\ a.taxon_id # 0 /\ a.taxon_id = b.taxon_id
                    /\ a.latitude # Null /\ b.latitude # Null
                    /\ a.longitude # Null /\ b.longitude # Null
                    /\ (a.latitude + 5) \div 10 = (b.latitude + 5) \div 10
                    /\ (a.longitude + 5) \div 10 = (b.longitude + 5) \div 10
                    /\ Max(a.observed_at_utc - b.observed_at_utc,
                           b.observed_at_utc - a.observed_at_utc) <= scRubric.window_minutes
            IN  /\ \A i, j \in DOMAIN L : i < j => L[i].observed_at_utc <= L[j].observed_at_utc
                /\ { L[i].inat_obs_id : i \in DOMAIN L } = IdsOf(sid)
                /\ Len(L) = Cardinality(IdsOf(sid))
                /\ scByStudent[sid].duplicates =
                      Cardinality({ i \in 1 .. (Len(L) - 1) : SameTaxonPlaceAndHour(L[i], L[i + 1]) })
                /\ IdsOf(sid) = {1, 2, 4} => scByStudent[sid].duplicates = 2
                /\ IdsOf(sid) = {1, 2, 3} => scByStudent[sid].duplicates = 1

C16_Witness ==
    /\ scPc = "writeScores"
    /\ "s1" \in DOMAIN scByStudent
    /\ IdsOf("s1") = {1, 2, 3}
    /\ scByStudent["s1"].duplicates = 1

\* C17: the record ranked Nth by recorded time in its novelty bucket adds the
\* Nth value of the table of rank points to its participant's novelty sum,
\* and the flat value beyond the table; three records of one bucket at
\* T1 < T2 < T3 get the first three values.
C17_NoveltyByRankInBucket ==
    LET TimeRank(r) ==
            1 + Cardinality({ j \in DOMAIN scRows :
                    /\ scRows[j].novelty_key = r.novelty_key
                    /\ RecordedAt(scRows[j].observations) < RecordedAt(r.observations) })
        NthValue(n) ==
            IF n <= Len(scRubric.rank_points) THEN scRubric.rank_points[n]
            ELSE scRubric.after_points
        RECURSIVE BucketPoints(_, _)
        BucketPoints(sid, i) ==
            IF i > Len(scRows) THEN 0
            ELSE (IF scRows[i].student_id = sid /\ scRows[i].novelty_key # <<>>
                  THEN NthValue(TimeRank(scRows[i])) ELSE 0) + BucketPoints(sid, i + 1)
    IN
    scPc = "writeScores" =>
        \A sid \in DOMAIN scByStudent :
            /\ scByStudent[sid].novelty_sum = BucketPoints(sid, 1)
            /\ (IdsOf(sid) = {1, 2, 3} /\ Len(scRows) = 3) =>
                  scByStudent[sid].novelty_sum =
                      NthValue(1) + NthValue(2) + NthValue(3)

C17_Witness ==
    /\ scPc = "writeScores"
    /\ "s1" \in DOMAIN scByStudent
    /\ IdsOf("s1") = {1, 2, 3}
    /\ Len(scRubric.rank_points) = 6
    /\ scByStudent["s1"].novelty_sum = 5000 + 3000 + 2000

\* The observations joined to a participant.
RecordsOf(sid) ==
    { scRows[i].observations : i \in { j \in DOMAIN scRows : scRows[j].student_id = sid } }

\* C18: an entry has O = the participant's included records, U = their
\* distinct taxa, RG = those at research grade, SL = those at species rank or
\* finer, D = their distinct calendar days eight hours behind UTC, and
\* total_points = 6 ln(1+O) + 7 ln(1+U) + 1.5 RG + 0.5 SL + 3 D + novelty_sum
\* - duplicates * penalty, rounded to two decimals.
C18_EntryCountsAndTotal ==
    scPc = "writeScores" =>
        \A sid \in DOMAIN scByStudent :
            LET e == scByStudent[sid]
                R == RecordsOf(sid)
            IN  /\ e.O = Cardinality(R)
                /\ e.U = Cardinality({ o.taxon_id : o \in R } \ {0})
                /\ e.RG = Cardinality({ o \in R : o.quality_grade = "research" })
                /\ e.SL = Cardinality({ o \in R :
                              o.taxon_rank \in {"species", "subspecies", "variety", "form"} })
                /\ e.D = Cardinality({ (o.observed_at_utc - 8 * 60) \div (24 * 60) : o \in R })
                /\ e.total_points =
                      round2(6 * ln1(e.O) + 7 * ln1(e.U) + 1500 * e.RG + 500 * e.SL
                             + 3000 * e.D + e.novelty_sum
                             - e.duplicates * scRubric.penalty_each)

C18_Witness ==
    /\ scPc = "writeScores"
    /\ "s2" \in DOMAIN scByStudent
    /\ IdsOf("s2") = {7, 9}
    /\ scByStudent["s2"].O = 2 /\ scByStudent["s2"].U = 1
    /\ scByStudent["s2"].RG = 1 /\ scByStudent["s2"].SL = 1
    /\ scByStudent["s2"].D = 2

\* C19: links without a resolved participant are dropped from scoring: there
\* is no entry for a null or empty participant id, and the entries are those
\* scoreAll gives for the resolved rows alone.
C19_UnresolvedLinksDropped ==
    LET RECURSIVE ResolvedRows(_)
        ResolvedRows(i) ==
            IF i > Len(scRows) THEN <<>>
            ELSE (IF scRows[i].student_id \in {NoStudent, ""} THEN <<>> ELSE <<scRows[i]>>)
                 \o ResolvedRows(i + 1)
    IN
    scPc = "writeScores" =>
        /\ NoStudent \notin DOMAIN scByStudent
        /\ "" \notin DOMAIN scByStudent
        /\ \A sid \in DOMAIN scByStudent : scByStudent[sid].O = Cardinality(RecordsOf(sid))
        /\ scByStudent = scoreAll(ResolvedRows(1), scRubric)

C19_Witness ==
    /\ scPc = "writeScores"
    /\ \E i \in DOMAIN scRows : scRows[i].student_id = NoStudent
    /\ DOMAIN scByStudent = {"s1"}
    /\ Len(scRows) = 3

(***************************************************************************)
(* compute_scores_mvp(p_run_id): the per-observation scoring function of   *)
(* sql/mvp_item_2_score_entries_obs_FINAL.sql; the function of             *)
(* sql/mvp_item_2_scoring_rpc.sql is the same text over score_entries.     *)
(* Times are hours since the epoch, a date is a number of days.            *)
(***************************************************************************)
MaxMvpObs == 3
MaxMvpCalls == 3
MaxMvpRuns == 2

\* user_login IS NULL
NullLogin == "NULL"

\* A row of public.observations.
ObsRow(id, login, taxon, grade, observed, created, lat) ==
    [inat_obs_id |-> id, user_login |-> login, taxon_id |-> taxon,
     quality_grade |-> grade, observed_at |-> observed, created_at |-> created,
     latitude |-> lat, longitude |-> IF lat = Null THEN Null ELSE 50]

\* normalizeObservation takes observed_at from the day observed, so the
\* observations of one day share it; created_at has the upstream's seconds.
ObsCatalog ==
    { ObsRow(1, "ana", 1, "research", 24, 100, 10),
      ObsRow(2, "ana", 1, "needs_id", 24, 100, 10),
      ObsRow(3, "ana", 1, "research", 24, 90, 10),
      ObsRow(4, "ben", 1, "casual", Null, Null, Null),
      ObsRow(5, NullLogin, 2, "research", 30, 100, 10),
      ObsRow(6, "ana", 2, "research", 0, 50, 5) }

\* The rows config_filters can hold: no bound, a first day, a southern edge.
CfgRows ==
    { [d1 |-> Null, d2 |-> Null, swlat |-> Null, nelat |-> Null, swlng |-> Null, nelng |-> Null],
      [d1 |-> 1, d2 |-> 1, swlat |-> Null, nelat |-> Null, swlng |-> Null, nelng |-> Null],
      [d1 |-> Null, d2 |-> Null, swlat |-> 8, nelat |-> 20, swlng |-> 40, nelng |-> 60] }

\* observed_at::date
ToDate(t) == t \div 24

\* A bound that is NULL passes every row; a column that is NULL passes no
\* bound.
AtLeast(bound, x) == bound = Null \/ (x # Null /\ x >= bound)
AtMost(bound, x) == bound = Null \/ (x # Null /\ x <= bound)

\* The WHERE clause of the CTE obs.
PassesFilters(cfg, o) ==
    /\ o.user_login # NullLogin
    /\ AtLeast(cfg.d1, IF o.observed_at = Null THEN Null ELSE ToDate(o.observed_at))
    /\ AtMost(cfg.d2, IF o.observed_at = Null THEN Null ELSE ToDate(o.observed_at))
    /\ AtLeast(cfg.swlat, o.latitude)
    /\ AtMost(cfg.nelat, o.latitude)
    /\ AtLeast(cfg.swlng, o.longitude)
    /\ AtMost(cfg.nelng, o.longitude)

\* x sorts before y in ascending order with NULLS LAST.
NullsLastBefore(x, y) == x # Null /\ (y = Null \/ x < y)

\* ORDER BY o.observed_at NULLS LAST, o.created_at NULLS LAST
SortsBefore(a, b) ==
    \/ NullsLastBefore(a.observed_at, b.observed_at)
    \/ /\ a.observed_at = b.observed_at
       /\ NullsLastBefore(a.created_at, b.created_at)

\* The orders in which the executor can hand over rows whose sort keys are
\* equal: one place for every row.
PeerOrders(obs) ==
    { f \in [{ o.inat_obs_id : o \in obs } -> 1 .. Cardinality(obs)] :
          \A i, j \in DOMAIN f : i # j => f[i] # f[j] }

\* ROW_NUMBER() OVER (PARTITION BY o.user_login, o.taxon_id ORDER BY ...)
rn_first_taxon(o, obs, place) ==
    1 + Cardinality({ p \in obs :
            /\ p.user_login = o.user_login /\ p.taxon_id = o.taxon_id
            /\ \/ SortsBefore(p, o)
               \/ /\ p.observed_at = o.observed_at /\ p.created_at = o.created_at
                  /\ place[p.inat_obs_id] < place[o.inat_obs_id] })

\* The CTE scored.
Scored(v_run, obs, place) ==
    { [run_id |-> v_run, user_login |-> o.user_login, inat_obs_id |-> o.inat_obs_id,
       taxon_id |-> o.taxon_id,
       points |-> 1 + (IF o.quality_grade = "research" THEN 1 ELSE 0)
                    + (IF rn_first_taxon(o, obs, place) = 1 THEN 1 ELSE 0),
       observed_at |-> o.observed_at] : o \in obs }

\* recordRun of the ingest: a new score_runs row, the latest from now on.
StartScoreRun ==
    /\ mvRuns < MaxMvpRuns
    /\ mvRuns' = mvRuns + 1
    /\ UNCHANGED <<mvObservations, mvCfg, mvEntries, mvFirst, mvCalls>>
    /\ UNCHANGED <<upsertVars, fetchVars, jobVars, replayVars, ledgerVars, pagerVars, scoreVars, exitVars, paceVars, bootVars, normVars, loginVars, resumeVars, scrollVars, assignVars>>

\* SELECT compute_scores_mvp(p_run_id): RETURN 0 without a run; else DELETE
\* the run's rows and INSERT the scored rows (after the DELETE no row of the
\* run is left for ON CONFLICT to meet).
ComputeScoresMvp ==
    /\ mvCalls < MaxMvpCalls
    /\ mvCalls' = mvCalls + 1
    /\ \E p_run_id \in {Null} \cup (1 .. MaxMvpRuns) :
          LET \* COALESCE(p_run_id, (SELECT id FROM score_runs ORDER BY ... LIMIT 1))
              v_run == IF p_run_id # Null THEN p_run_id
                       ELSE IF mvRuns > 0 THEN mvRuns ELSE Null
              obs == { o \in mvObservations : PassesFilters(mvCfg, o) }
          IN  IF v_run = Null
              THEN UNCHANGED <<mvEntries, mvFirst>>
              ELSE \E place \in PeerOrders(obs) :
                      /\ mvEntries' = { e \in mvEntries : e.run_id # v_run }
                                        \cup Scored(v_run, obs, place)
                      /\ mvFirst' =
                            IF v_run \in DOMAIN mvFirst THEN mvFirst
                            ELSE [r \in DOMAIN mvFirst \cup {v_run} |->
                                     IF r = v_run THEN Scored(v_run, obs, place)
                                     ELSE mvFirst[r]]
    /\ UNCHANGED <<mvObservations, mvCfg, mvRuns>>
    /\ UNCHANGED <<upsertVars, fetchVars, jobVars, replayVars, ledgerVars, pagerVars, scoreVars, exitVars, paceVars, bootVars, normVars, loginVars, resumeVars, scrollVars, assignVars>>

InitMvp ==
    /\ mvObservations \in { s \in SUBSET ObsCatalog : Cardinality(s) <= MaxMvpObs }
    /\ mvCfg \in CfgRows
    /\ mvRuns = 0
    /\ mvEntries = {}
    /\ mvFirst = <<>>
    /\ mvCalls = 0
    /\ UpsertIdle /\ FetchIdle /\ JobIdle /\ ReplayIdle /\ LedgerIdle /\ PagerIdle /\ ScoreIdle /\ ExitIdle /\ PaceIdle /\ BootIdle /\ NormIdle /\ LoginIdle /\ ResumeIdle /\ ScrollIdle /\ AssignIdle

NextMvp ==
    \/ StartScoreRun
    \/ ComputeScoresMvp

SpecMvp == InitMvp /\ [][NextMvp]_vars

\* C20: with observations and filters unchanged, a repeated call of
\* compute_scores_mvp for a run leaves the run's rows as they were after the
\* first call for it: the same observations, users, taxa and points.
C20_RebuildSameAsFirst ==
    \A r \in DOMAIN mvFirst : { e \in mvEntries : e.run_id = r } = mvFirst[r]

\* C21: the store never holds two score entries for one pair of score run
\* and participant.
C21_OneEntryPerRunAndStudent ==
    \A e, f \in scEntries :
        (e.score_run_id = f.score_run_id /\ e.student_id = f.student_id) => e = f

\* Two runs were written, one of them with entries of two participants.
C21_Witness ==
    /\ \E e, f \in scEntries :
          e.score_run_id = f.score_run_id /\ e.student_id # f.student_id
    /\ \E e, f \in scEntries :
          e.score_run_id # f.score_run_id /\ e.student_id = f.student_id

\* C22: a score run that is visible in the store has all of the entries
\* computed for it, whatever happened in the middle of writeScores: the
\* participants of its entries are the participants of the Map.
C22_RunAllOrNothing ==
    \A n \in DOMAIN scOutcomes :
        scOutcomes[n] # "runFailed" =>
            { e.student_id : e \in { x \in scEntries : x.score_run_id = n } }
                = DOMAIN scByStudent

(***************************************************************************)
(* The drivers and the exit status of the process: the loop of ingest.mjs  *)
(* 331-339 ("main_331"), the driver of ingest.mjs 782-796 ("driver_782")   *)
(* and main().catch(console.error) of unnamed/part_005.  A step is one     *)
(* processAssignment(id), or one of the five calls of main of part_005;    *)
(* it ends "ok", "thrown" (an error leaves the step) or "logged" (the step *)
(* prints its error and returns, as the steps of part_005 do).             *)
(***************************************************************************)
MaxAssignments == 3

\* One step of the run: try { await processAssignment(id) } catch (e) {...}
\* of the two loops of ingest.mjs, one awaited call of main of part_005.
DriverStep ==
    /\ xCode = Null
    /\ Len(xLog) < xTodo
    /\ \E outcome \in {"ok", "logged", "thrown"} :
          /\ outcome = "logged" => xVariant = "part_005"
          /\ xLog' = Append(xLog, outcome)
          \* catch (e) { hadError = true; ... } of line 335; the catch of
          \* line 787 only prints
          /\ xHadError' = (xHadError \/ (xVariant = "main_331" /\ outcome = "thrown"))
          \* main().catch(console.error): the rejection is printed and the
          \* process ends with nothing left to run
          /\ xCode' = IF xVariant = "part_005" /\ outcome = "thrown" THEN 0 ELSE xCode
    /\ UNCHANGED <<xVariant, xTodo>>
    /\ UNCHANGED <<upsertVars, fetchVars, jobVars, replayVars, ledgerVars, pagerVars, scoreVars, mvpVars, paceVars, bootVars, normVars, loginVars, resumeVars, scrollVars, assignVars>>

\* The end of the run: if (hadError) process.exit(1) of line 337, and the
\* status 0 of a process that runs out of work; the outer catch of lines
\* 792-795 has nothing to catch, the loop body catching every error.
DriverExit ==
    /\ xCode = Null
    /\ Len(xLog) = xTodo
    /\ xCode' = IF xVariant = "main_331" /\ xHadError THEN 1 ELSE 0
    /\ UNCHANGED <<xVariant, xTodo, xLog, xHadError>>
    /\ UNCHANGED <<upsertVars, fetchVars, jobVars, replayVars, ledgerVars, pagerVars, scoreVars, mvpVars, paceVars, bootVars, normVars, loginVars, resumeVars, scrollVars, assignVars>>

InitExit ==
    /\ xVariant \in {"main_331", "driver_782", "part_005"}
    \* ASSIGNMENT_IDS holds at least one id; main of part_005 makes five calls
    /\ xTodo \in IF xVariant = "part_005" THEN {5} ELSE 1 .. MaxAssignments
    /\ xLog = <<>>
    /\ xHadError = FALSE
    /\ xCode = Null
    /\ UpsertIdle /\ FetchIdle /\ JobIdle /\ ReplayIdle /\ LedgerIdle /\ PagerIdle /\ ScoreIdle /\ MvpIdle /\ PaceIdle /\ BootIdle /\ NormIdle /\ LoginIdle /\ ResumeIdle /\ ScrollIdle /\ AssignIdle

NextExit ==
    \/ DriverStep
    \/ DriverExit

SpecExit == InitExit /\ [][NextExit]_vars

\* C23: the process exits with zero only when every step of the run
\* succeeded, and with a non-zero status when a step ended in an error.
C23_ExitStatusTellsFailure ==
    xCode # Null =>
        (xCode = 0 <=> \A i \in DOMAIN xLog : xLog[i] = "ok")
\* ======================================================================
\* The waits between consecutive upstream requests.  A step of a loop
\* is one request, what the loop does with the response, and every sleep
\* it makes before it sends the next request.
\* ======================================================================

MaxPaceRequests == 4

\* const BASE_WAIT_MS = 500 (part_010 and the ledger generation)
BASE_WAIT_MS == 500

\* initialDelayMs of fetchJsonWithRetries
INITIAL_DELAY_MS == 800

\* await sleep(1000) of iNatScroll: "1 req/sec recommended by iNat"
SCROLL_PACE_MS == 1000

\* The retry-after header of a response, in seconds; Null: no header.
RetryAfters == {Null, 1, 30}

\* What a response to the next request can be.
PaceStatuses == {200, 429, 500, 404}

\* const throttleMs = Math.ceil(1000 / Math.max(1, RPS)), RPS an integer
throttleMs(rps) ==
    LET d == Max(1, rps)
    IN  IF 1000 % d = 0 THEN 1000 \div d ELSE (1000 \div d) + 1

\* What a step leaves behind: the response and the sleeps that followed it.
PaceEffect(pc, s, hint, backoff, retried, wait) ==
    /\ wPc' = pc
    /\ wRequests' = wRequests + 1
    /\ wLast' = [status |-> s, hint |-> hint, backoff |-> backoff, retried |-> retried]
    /\ wWait' = IF pc = "request" THEN wait ELSE wWait

\* iNatScroll and fetchJsonWithRetries (unnamed/part_004).
iNatScrollRequest ==
    /\ wLoop = "iNatScroll" /\ wPc = "request" /\ wRequests < MaxPaceRequests
    /\ \E s \in PaceStatuses, more \in BOOLEAN, hint \in RetryAfters, jit \in {0, 299} :
          IF s = 200
          THEN /\ hint = Null /\ jit = 0
               \* yield results; await sleep(1000); the next call starts over
               /\ PaceEffect(IF more THEN "request" ELSE "done", s, Null, 0, FALSE, SCROLL_PACE_MS)
               /\ wAttempt' = 1 /\ wDelay' = INITIAL_DELAY_MS
          ELSE IF (s = 429 \/ s = 403 \/ s >= 500) /\ wAttempt < SCROLL_MAX_RETRIES
          THEN LET wait0 == wDelay + jit
                   wait1 == IF hint # Null THEN Max(wait0, hint * 1000) ELSE wait0
               IN  /\ more
                   /\ PaceEffect("request", s, hint, wait0, TRUE, Max(wait1, 1000))
                   /\ wAttempt' = wAttempt + 1
                   /\ wDelay' = Min((wDelay * 19) \div 10, 45000)
          ELSE /\ more /\ hint = Null /\ jit = 0
               /\ PaceEffect("thrown", s, Null, 0, FALSE, 0)
               /\ UNCHANGED <<wAttempt, wDelay>>
    /\ UNCHANGED <<wLoop, wThrottle>>
    /\ UNCHANGED <<upsertVars, fetchVars, jobVars, replayVars, ledgerVars, pagerVars, scoreVars, mvpVars, exitVars, bootVars, normVars, loginVars, resumeVars, scrollVars, assignVars>>

\* inatObsPager and the loop that consumes it (ingest.mjs).
inatObsPagerRequest ==
    /\ wLoop = "inatObsPager" /\ wPc = "request" /\ wRequests < MaxPaceRequests
    /\ \E s \in PaceStatuses, more \in BOOLEAN, hint \in RetryAfters, jit \in {0, 999} :
          IF s = 200
          THEN /\ hint = Null /\ jit = 0
               \* the consumer sleeps throttleMs after its upserts, then the
               \* generator sleeps throttleMs after page++
               /\ PaceEffect(IF more THEN "request" ELSE "done", s, Null, 0, FALSE, wThrottle + wThrottle)
          ELSE IF s = 429
          THEN \* http() throws without the headers: sleep(1500 + random * 1000)
               /\ more
               /\ PaceEffect("request", s, hint, 1500 + jit, TRUE, 1500 + jit)
          ELSE /\ more /\ hint = Null /\ jit = 0
               /\ PaceEffect("thrown", s, Null, 0, FALSE, 0)
    /\ UNCHANGED <<wLoop, wThrottle, wAttempt, wDelay>>
    /\ UNCHANGED <<upsertVars, fetchVars, jobVars, replayVars, ledgerVars, pagerVars, scoreVars, mvpVars, exitVars, bootVars, normVars, loginVars, resumeVars, scrollVars, assignVars>>

\* fetchUpdates and fetchJson of the ledger generation.
fetchUpdatesRequest ==
    /\ wLoop = "fetchUpdates" /\ wPc = "request" /\ wRequests < MaxPaceRequests
    /\ \E s \in PaceStatuses, more \in BOOLEAN, hint \in RetryAfters :
          LET backoff == BASE_WAIT_MS * (2 ^ wAttempt)
          IN  IF s = 200
              THEN /\ hint = Null
                   \* sbUpsert, page += 1, and the next fetchJson at once
                   /\ PaceEffect(IF more THEN "request" ELSE "done", s, Null, 0, FALSE, 0)
                   /\ wAttempt' = 0
              ELSE IF s = 429
              THEN \* Number(retry-after) || 2; the loop ends after the last sleep
                   LET retryAfter == IF hint = Null THEN 2 ELSE hint
                   IN  /\ more
                       /\ PaceEffect(IF wAttempt < MAX_RETRIES THEN "request" ELSE "done",
                                     s, hint, backoff, wAttempt < MAX_RETRIES,
                                     (retryAfter + wAttempt) * 1000)
                       /\ wAttempt' = wAttempt + 1
              ELSE \* throw, caught: sleep(BASE_WAIT_MS * 2 ^ attempt) unless last
                   /\ more
                   /\ PaceEffect(IF wAttempt < MAX_RETRIES THEN "request" ELSE "thrown",
                                 s, hint, backoff, wAttempt < MAX_RETRIES, backoff)
                   /\ wAttempt' = wAttempt + 1
    /\ UNCHANGED <<wLoop, wThrottle, wDelay>>
    /\ UNCHANGED <<upsertVars, fetchVars, jobVars, replayVars, ledgerVars, pagerVars, scoreVars, mvpVars, exitVars, bootVars, normVars, loginVars, resumeVars, scrollVars, assignVars>>

\* The page loop of main and fetchJson (unnamed/part_010).
main010Request ==
    /\ wLoop = "main_010" /\ wPc = "request" /\ wRequests < MaxPaceRequests
    /\ \E s \in PaceStatuses, more \in BOOLEAN, hint \in RetryAfters, jit \in {0, 999} :
          \* jitter(BASE_WAIT_MS * Math.pow(2, attempt))
          LET backoff == BASE_WAIT_MS * (2 ^ wAttempt) + jit
          IN  IF s = 200
              THEN /\ hint = Null /\ jit = 0
                   /\ PaceEffect(IF more THEN "request" ELSE "done", s, Null, 0, FALSE, 0)
                   /\ wAttempt' = 0
              ELSE IF s = 429
              THEN \* parseInt(retry-after || "5", 10)
                   LET retryAfter == IF hint = Null THEN 5 ELSE hint
                   IN  /\ more
                       /\ PaceEffect(IF wAttempt < MAX_RETRIES THEN "request" ELSE "done",
                                     s, hint, backoff, wAttempt < MAX_RETRIES,
                                     (retryAfter + wAttempt) * 1000)
                       /\ wAttempt' = wAttempt + 1
              ELSE \* 5xx below the ceiling, and every error that is caught
                   /\ more
                   /\ PaceEffect(IF wAttempt < MAX_RETRIES THEN "request" ELSE "thrown",
                                 s, hint, backoff, wAttempt < MAX_RETRIES, backoff)
                   /\ wAttempt' = wAttempt + 1
    /\ UNCHANGED <<wLoop, wThrottle, wDelay>>
    /\ UNCHANGED <<upsertVars, fetchVars, jobVars, replayVars, ledgerVars, pagerVars, scoreVars, mvpVars, exitVars, bootVars, normVars, loginVars, resumeVars, scrollVars, assignVars>>

InitPace ==
    /\ wLoop \in {"iNatScroll", "inatObsPager", "fetchUpdates", "main_010"}
    \* RATE_LIMIT_RPS, default 1
    /\ wThrottle \in IF wLoop = "inatObsPager" THEN { throttleMs(rps) : rps \in {1, 3, 4} } ELSE {0}
    /\ wAttempt = IF wLoop = "iNatScroll" THEN 1 ELSE 0
    /\ wDelay = IF wLoop = "iNatScroll" THEN INITIAL_DELAY_MS ELSE 0
    /\ wRequests = 0
    /\ wWait = Null
    /\ wLast = [status |-> 0, hint |-> Null, backoff |-> 0, retried |-> FALSE]
    /\ wPc = "request"
    /\ UpsertIdle /\ FetchIdle /\ JobIdle /\ ReplayIdle /\ LedgerIdle /\ PagerIdle /\ ScoreIdle /\ MvpIdle /\ ExitIdle /\ BootIdle /\ NormIdle /\ LoginIdle /\ ResumeIdle /\ ScrollIdle /\ AssignIdle

NextPace ==
    \/ iNatScrollRequest
    \/ inatObsPagerRequest
    \/ fetchUpdatesRequest
    \/ main010Request

SpecPace == InitPace /\ [][NextPace]_vars

\* The pacing interval of the running loop; the loops without a pacing
\* setting are held to the smallest interval there is, one millisecond.
PacingInterval ==
    IF wLoop = "iNatScroll" THEN SCROLL_PACE_MS
    ELSE IF wLoop = "inatObsPager" THEN wThrottle
    ELSE 1

\* C24: between any two consecutive requests to the upstream observations
\* endpoint, a retry included, the fetcher has waited at least the pacing
\* interval.
C24_WaitsAtLeastPacingInterval ==
    (wPc = "request" /\ wWait # Null) => wWait >= PacingInterval

\* C25: when a retried 429 or 5xx response carried a retry-after hint, the
\* wait before the next attempt is the maximum of the computed backoff
\* delay and the hinted delay.
C25_WaitIsMaxOfBackoffAndHint ==
    (wPc = "request" /\ wLast.retried /\ wLast.hint # Null
        /\ (wLast.status = 429 \/ wLast.status >= 500))
    => wWait = Max(wLast.backoff, wLast.hint * 1000)
\* ======================================================================
\* Start of the process: the module body reads the environment and checks
\* it, then calls main, whose steps are upstream requests and store reads
\* and writes.
\* ======================================================================

MaxIo == 2

\* Decide mode: prioritize USER, then explicit mode, then PROJECT, default
\* to TRIP (unnamed/part_004).  env.mode is INAT_MODE in upper case, ""
\* when it is not set.
MODE(env) ==
    IF env.login THEN "USER"
    ELSE IF env.mode # "" THEN env.mode
    ELSE IF env.slug THEN "PROJECT"
    ELSE "TRIP"

\* Mutant of validation004: the filters of TRIP mode are not checked.
validation004_NoTripCheck(env) ==
    /\ ~(MODE(env) = "PROJECT" /\ ~env.slug)
    /\ ~(~env.url \/ ~env.key)

\* The checks of unnamed/part_004 in the order of the module body: TRUE when
\* the body reaches main().
validation004(env) ==
    /\ ~(MODE(env) = "USER" /\ ~env.login)
    /\ ~(MODE(env) = "PROJECT" /\ ~env.slug)
    /\ ~(MODE(env) = "TRIP" /\ ~env.bbox /\ ~env.d1 /\ ~env.d2 /\ ~env.since)
    /\ ~(~env.url \/ ~env.key)

\* if (!SB_URL || !SB_KEY) throw ...; if (!ASSIGNMENT_IDS.length) throw ...
validationIngest(env) ==
    /\ ~(~env.url \/ ~env.key)
    /\ env.ids

\* if (!SUPABASE_URL || !SUPABASE_KEY || !INAT_PROJECT_SLUG) process.exit(1)
validation010(env) ==
    ~(~env.url \/ ~env.key \/ ~env.slug)

\* The filters buildBaseParams (unnamed/part_004) puts into the query of
\* every request, besides order, order_by, per_page and fields.
buildBaseParams(env) ==
    (IF MODE(env) = "USER" THEN {"user_login"}
     ELSE IF MODE(env) = "PROJECT" THEN {"project_slug"}
     ELSE (IF env.bbox /\ env.bboxOk THEN {"swlng", "swlat", "nelng", "nelat"} ELSE {})
          \cup (IF env.d1 THEN {"d1"} ELSE {})
          \cup (IF env.d2 THEN {"d2"} ELSE {}))
    \cup (IF env.since THEN {"updated_since"} ELSE {})

\* The module body up to the call of main: a failed check throws or calls
\* process.exit(1), and the process ends with status 1.
ModuleBody ==
    /\ bPc = "boot"
    /\ LET ok == IF bVariant = "part_004" THEN validation004(bEnv)
                 ELSE IF bVariant = "ingest_9" THEN validationIngest(bEnv)
                 ELSE validation010(bEnv)
       IN  /\ bPc' = IF ok THEN "main" ELSE "stopped"
           /\ bCode' = IF ok THEN Null ELSE 1
    /\ UNCHANGED <<bVariant, bEnv, bIo>>
    /\ UNCHANGED <<upsertVars, fetchVars, jobVars, replayVars, ledgerVars, pagerVars, scoreVars, mvpVars, exitVars, paceVars, normVars, loginVars, resumeVars, scrollVars, assignVars>>

\* One awaited call of main: an upstream request or a store read or write;
\* main returns or throws after any of them.
MainStep ==
    /\ bPc = "main"
    /\ bIo < MaxIo
    /\ bIo' = bIo + 1
    /\ \E end \in {"goOn", "return", "throw"} :
          /\ bPc' = IF end = "goOn" THEN "main" ELSE "done"
          /\ bCode' = IF end = "goOn" THEN Null ELSE IF end = "return" THEN 0 ELSE 1
    /\ UNCHANGED <<bVariant, bEnv>>
    /\ UNCHANGED <<upsertVars, fetchVars, jobVars, replayVars, ledgerVars, pagerVars, scoreVars, mvpVars, exitVars, paceVars, normVars, loginVars, resumeVars, scrollVars, assignVars>>

InitBoot ==
    /\ bVariant \in {"part_004", "ingest_9", "part_010"}
    /\ bEnv \in [url : BOOLEAN, key : BOOLEAN, ids : BOOLEAN, slug : BOOLEAN,
                 login : BOOLEAN, bbox : BOOLEAN, bboxOk : BOOLEAN,
                 d1 : BOOLEAN, d2 : BOOLEAN, since : BOOLEAN,
                 mode : {"", "TRIP", "PROJECT", "USER", "DEMO"}]
    \* bboxOk: TRIP_BBOX is set and parses to four finite numbers
    /\ bEnv.bboxOk => bEnv.bbox
    /\ bPc = "boot"
    /\ bIo = 0
    /\ bCode = Null
    /\ UpsertIdle /\ FetchIdle /\ JobIdle /\ ReplayIdle /\ LedgerIdle /\ PagerIdle /\ ScoreIdle /\ MvpIdle /\ ExitIdle /\ PaceIdle /\ NormIdle /\ LoginIdle /\ ResumeIdle /\ ScrollIdle /\ AssignIdle

NextBoot ==
    \/ ModuleBody
    \/ MainStep

SpecBoot == InitBoot /\ [][NextBoot]_vars

\* C26: when a required setting is missing (store URL or key; assignment
\* ids in ingest.mjs; the project slug in unnamed/part_010 and in PROJECT
\* mode; in TRIP mode every one of bounding box, dates and updated-since),
\* the process makes no upstream request and no store read or write, and
\* once it has left the module body it has stopped with status 1.
C26_MissingConfigStopsBeforeIo ==
    LET missing ==
            \/ ~bEnv.url \/ ~bEnv.key
            \/ bVariant = "ingest_9" /\ ~bEnv.ids
            \/ bVariant = "part_010" /\ ~bEnv.slug
            \/ bVariant = "part_004" /\ MODE(bEnv) = "PROJECT" /\ ~bEnv.slug
            \/ bVariant = "part_004" /\ MODE(bEnv) = "TRIP"
                  /\ ~bEnv.bbox /\ ~bEnv.d1 /\ ~bEnv.d2 /\ ~bEnv.since
    IN  (bPc # "off" /\ missing)
        => /\ bIo = 0
           /\ bPc \in {"boot", "stopped"}
           /\ bPc = "stopped" => bCode = 1

\* TRIP mode without any filter has stopped with an error and no I/O, and
\* so has a start without the store key.
C26_Witness ==
    /\ bPc = "stopped" /\ bCode = 1 /\ bIo = 0
    /\ bVariant = "part_004" /\ MODE(bEnv) = "TRIP"
    /\ bEnv.url /\ bEnv.key
    /\ ~bEnv.bbox /\ ~bEnv.d1 /\ ~bEnv.d2 /\ ~bEnv.since

\* C36: once unnamed/part_004 has made a request to the upstream, which it
\* does only after its start-up checks passed, the query of its requests
\* holds at least one restricting filter: user, project, bounding box, a
\* date bound or updated-since.
C36_EveryRequestIsRestricted ==
    (bVariant = "part_004" /\ bIo > 0) => buildBaseParams(bEnv) # {}

\* ======================================================================
\* Normalization of an upstream record.  A JavaScript value is a record
\* of its type t and its text v: a number carries its decimal text, "NaN"
\* included.
\* ======================================================================

JsNum(text) == [t |-> "number", v |-> text]
JsStr(text) == [t |-> "string", v |-> text]
JsNull == [t |-> "null", v |-> ""]
JsUndefined == [t |-> "undefined", v |-> ""]

\* parseFloat of a part of the location string
parseFloat(s) ==
    IF s \in {"9.6", "-84.1"} THEN JsNum(s) ELSE JsNum("NaN")

\* Number(...) of a part of the location string; the part is undefined when
\* the string has fewer parts
Number(parts, k) ==
    IF k > Len(parts) THEN JsNum("NaN")
    ELSE IF parts[k] \in {"9.6", "-84.1"} THEN JsNum(parts[k])
    ELSE IF parts[k] = "" THEN JsNum("0")
    ELSE JsNum("NaN")

\* Number.isFinite
isFinite(x) == x.t = "number" /\ x.v \notin {"NaN", "Infinity"}

\* The location string stands as the sequence of its parts between commas;
\* <<>> is a record without location, <<"">> the empty string.
Truthy(location) == location # <<>> /\ location # <<"">>

\* The row of upsertObservations (unnamed/part_004), the modelled columns.
upsertObservationsRow(o) ==
    LET fromGeo == Len(o.geojson) = 2
        coords == o.location
        fromLoc == ~fromGeo /\ Truthy(o.location) /\ Len(coords) = 2
        latitude == IF fromGeo THEN o.geojson[2]
                    ELSE IF fromLoc THEN parseFloat(coords[1]) ELSE JsNull
        longitude == IF fromGeo THEN o.geojson[1]
                     ELSE IF fromLoc THEN parseFloat(coords[2]) ELSE JsNull
    IN  [threw |-> FALSE,
         latitude |-> IF isFinite(latitude) THEN latitude ELSE JsNull,
         longitude |-> IF isFinite(longitude) THEN longitude ELSE JsNull,
         user_id |-> IF o.user = <<>> THEN JsNull ELSE o.user[1],
         taxon_id |-> IF o.taxon = <<>> THEN JsNull ELSE o.taxon[1],
         photo_count |-> IF o.photos = <<>> THEN JsNum("0") ELSE o.photos[1]]

\* mapObs (ingest.mjs), the modelled columns.
mapObs(o) ==
    [threw |-> FALSE,
     latitude |-> IF o.geojson # <<>> THEN o.geojson[2]
                  ELSE IF Truthy(o.location) THEN Number(o.location, 1) ELSE JsNull,
     longitude |-> IF o.geojson # <<>> THEN o.geojson[1]
                   ELSE IF Truthy(o.location) THEN Number(o.location, 2) ELSE JsNull,
     user_id |-> IF o.user = <<>> THEN JsNull ELSE o.user[1],
     taxon_id |-> IF o.taxon = <<>> THEN JsNull ELSE o.taxon[1],
     photo_count |-> JsUndefined]

\* transformObservation (unnamed/part_005), the modelled columns: obs.user.id
\* throws a TypeError on a record without user.
transformObservation(obs) ==
    LET part(k) == IF obs.location = <<>> \/ k > Len(obs.location) THEN JsUndefined
                   ELSE JsStr(obs.location[k])
    IN  [threw |-> obs.user = <<>>,
         latitude |-> part(1),
         longitude |-> part(2),
         user_id |-> IF obs.user = <<>> THEN JsUndefined ELSE obs.user[1],
         taxon_id |-> IF obs.taxon = <<>> THEN JsUndefined ELSE obs.taxon[1],
         photo_count |-> JsUndefined]

\* The mapper runs on the record.
Normalize ==
    /\ nPc = "map"
    /\ LET row == IF nVariant = "upsertObservations" THEN upsertObservationsRow(nObs)
                  ELSE IF nVariant = "mapObs" THEN mapObs(nObs)
                  ELSE transformObservation(nObs)
       IN  /\ nRow' = IF row.threw THEN <<>> ELSE row
           /\ nPc' = IF row.threw THEN "threw" ELSE "mapped"
    /\ UNCHANGED <<nVariant, nObs, nBody>>
    /\ UNCHANGED <<upsertVars, fetchVars, jobVars, replayVars, ledgerVars, pagerVars, scoreVars, mvpVars, exitVars, paceVars, bootVars, loginVars, resumeVars, scrollVars, assignVars>>

\* The row goes into the request body: JSON.stringify writes null for NaN
\* and Infinity and leaves out a key whose value is undefined.
SendRow ==
    /\ nPc = "mapped"
    /\ LET json(x) == IF x.t = "number" /\ ~isFinite(x) THEN JsNull ELSE x
       IN  nBody' = [k \in {"latitude", "longitude", "user_id", "taxon_id", "photo_count"} |-> json(nRow[k])]
    /\ nPc' = "sent"
    /\ UNCHANGED <<nVariant, nObs, nRow>>
    /\ UNCHANGED <<upsertVars, fetchVars, jobVars, replayVars, ledgerVars, pagerVars, scoreVars, mvpVars, exitVars, paceVars, bootVars, loginVars, resumeVars, scrollVars, assignVars>>

InitNorm ==
    /\ nVariant \in {"upsertObservations", "mapObs", "transformObservation"}
    /\ nObs \in [geojson : {<<>>, <<JsNum("-84.0"), JsNum("9.5")>>},
                 location : {<<>>, <<"">>, <<"9.6", "-84.1">>, <<"abc", "def">>, <<"", "">>},
                 user : {<<>>, <<JsNum("7")>>},
                 taxon : {<<>>, <<JsNum("3")>>},
                 photos : {<<>>, <<JsNum("0")>>, <<JsNum("2")>>}]
    /\ nRow = <<>>
    /\ nBody = <<>>
    /\ nPc = "map"
    /\ UpsertIdle /\ FetchIdle /\ JobIdle /\ ReplayIdle /\ LedgerIdle /\ PagerIdle /\ ScoreIdle /\ MvpIdle /\ ExitIdle /\ PaceIdle /\ BootIdle /\ LoginIdle /\ ResumeIdle /\ ScrollIdle /\ AssignIdle

NextNorm ==
    \/ Normalize
    \/ SendRow

SpecNorm == InitNorm /\ [][NextNorm]_vars

\* C27: normalization does not fail on any record, and the coordinates it
\* sends to the store are those of the geometry when the record has one,
\* otherwise the numbers of the two parts of the location string, and null
\* when that leaves no finite number.
C27_CoordinatesFromGeometryElseLocation ==
    LET expected(k) ==
            IF nObs.geojson # <<>> THEN nObs.geojson[3 - k]
            ELSE IF Len(nObs.location) = 2 /\ nObs.location[k] \in {"9.6", "-84.1"}
                 THEN JsNum(nObs.location[k])
            ELSE JsNull
        same(x, e) == IF e = JsNull THEN x \in {JsNull, JsUndefined} ELSE x = e
    IN  /\ nPc # "threw"
        /\ nPc = "sent" => /\ same(nBody.latitude, expected(1))
                           /\ same(nBody.longitude, expected(2))
\* ======================================================================
\* safe_upsert_user_login and the table user_login
\* (sql/mvp_item_2_score_entries_obs_FINAL.sql), called through
\* safeUpsertUserLogin (unnamed/part_006).
\* ======================================================================

MaxLoginCalls == 3

\* SQL NULL of a uuid or text argument; undefined in the rpc arguments
SqlNull == NullLogin

\* trim() strips spaces; lower() folds case
SqlTrim(s) == IF s \in {"", "  "} THEN "" ELSE s
SqlLower(s) == IF s = "A@X" THEN "a@x" ELSE s

\* The constraints of user_login on a table value: primary key and not
\* null are in the shape of the table, then the check on the email and
\* the unique index on lower(email).
user_login_constraints(rows) ==
    /\ \A u \in DOMAIN rows :
          /\ u # SqlNull
          /\ rows[u].email # SqlNull /\ rows[u].provider # SqlNull
          /\ SqlTrim(rows[u].email) # ""
    /\ \A u, v \in DOMAIN rows :
          SqlLower(rows[u].email) = SqlLower(rows[v].email) => u = v

\* Mutant of safe_upsert_user_login: the arguments are written as they
\* come, by a statement that no constraint stops.
safe_upsert_user_login_Raw(rows, p_user_id, p_email, p_provider) ==
    [raised |-> FALSE,
     rows |-> [u \in DOMAIN rows \cup {p_user_id} |->
                  IF u = p_user_id THEN [email |-> p_email, provider |-> p_provider]
                  ELSE rows[u]]]

\* The function: what it raises and the table it leaves.  An exception
\* of the function or of a constraint rolls the statement back.
safe_upsert_user_login(rows, p_user_id, p_email, p_provider) ==
    LET v_email0 == IF p_email = SqlNull THEN "unknown@bioblitz.local" ELSE p_email
        v_provider == IF p_provider = SqlNull THEN "email" ELSE p_provider
        v_email == IF SqlTrim(v_email0) = "" THEN "unknown@bioblitz.local" ELSE v_email0
        \* insert ... on conflict (user_id) do update set email =
        \* coalesce(excluded.email, user_login.email), provider likewise
        written == [u \in DOMAIN rows \cup {p_user_id} |->
                       IF u = p_user_id THEN [email |-> v_email, provider |-> v_provider]
                       ELSE rows[u]]
    IN  IF p_user_id = SqlNull THEN [raised |-> TRUE, rows |-> rows]
        ELSE IF ~user_login_constraints(written) THEN [raised |-> TRUE, rows |-> rows]
        ELSE [raised |-> FALSE, rows |-> written]

\* safeUpsertUserLogin(userId, email, provider): the rpc call; an argument
\* left out or undefined reaches the function as NULL.
safeUpsertUserLogin ==
    /\ ulCalls >= 0 /\ ulCalls < MaxLoginCalls
    /\ \E userId \in {"u1", "u2", SqlNull},
          email \in {SqlNull, "", "  ", "a@x", "A@X"},
          provider \in {SqlNull, "google"} :
          LET r == safe_upsert_user_login(ulRows, userId, email, provider)
          IN  /\ ulRows' = r.rows
              /\ ulLast' = [p_user_id |-> userId, p_email |-> email,
                            raised |-> r.raised, before |-> ulRows]
    /\ ulCalls' = ulCalls + 1
    /\ UNCHANGED <<upsertVars, fetchVars, jobVars, replayVars, ledgerVars, pagerVars, scoreVars, mvpVars, exitVars, paceVars, bootVars, normVars, resumeVars, scrollVars, assignVars>>

\* The table is empty after the migration has created it.
InitLogin ==
    /\ ulRows = <<>>
    /\ ulLast = <<>>
    /\ ulCalls = 0
    /\ UpsertIdle /\ FetchIdle /\ JobIdle /\ ReplayIdle /\ LedgerIdle /\ PagerIdle /\ ScoreIdle /\ MvpIdle /\ ExitIdle /\ PaceIdle /\ BootIdle /\ NormIdle /\ ResumeIdle /\ ScrollIdle /\ AssignIdle

NextLogin ==
    safeUpsertUserLogin

SpecLogin == InitLogin /\ [][NextLogin]_vars

\* C28: after any sequence of calls no row of user_login has a null or
\* blank email, and a call with a null user id has raised an error and
\* left every row as it was.
C28_NoBlankEmailAndNullIdRaises ==
    /\ \A u \in DOMAIN ulRows :
          /\ ulRows[u].email # SqlNull
          /\ ulRows[u].email \notin {"", "  "}
    /\ (ulLast # <<>> /\ ulLast.p_user_id = SqlNull)
          => (ulLast.raised /\ ulRows = ulLast.before)

\* A call without email has stored the placeholder, and after it a call
\* with a null user id has been refused on the table that holds the row.
C28_Witness ==
    /\ ulLast # <<>> /\ ulLast.p_user_id = SqlNull /\ ulLast.raised
    /\ \E u \in DOMAIN ulRows : ulRows[u].email = "unknown@bioblitz.local"
    /\ \E u \in DOMAIN ulRows : ulRows[u].email = "a@x"

\* C40: a call of safe_upsert_user_login with a user id that is not null
\* completes without error, whatever the table holds, also for a user
\* without email when another user without email is already stored.
C40_NonNullUserIdNeverRaises ==
    (ulLast # <<>> /\ ulLast.p_user_id # SqlNull) => ~ulLast.raised

\* ======================================================================
\* Successive runs of main of unnamed/part_010 on one store: the resume
\* point read back from the store (getLastUpdatedAt), the pages of
\* buildInatUrl, the chunk loop and sbUpsert, with a failure possible at
\* every request.  The upstream stands still.
\* ======================================================================

\* Bounds of the model.
ResumePerPage == 4      \* scaled from const PER_PAGE = 200 of main
MaxResumeRecords == 5   \* upstream records matching the filter
MaxResumeRuns == 2      \* processes started

\* Listings of n records in ascending updated_at, 10 or 40 seconds apart.
RECURSIVE Listings(_)
Listings(n) ==
    IF n = 1 THEN {<<100>>}
    ELSE { Append(l, l[n - 1] + g) : l \in Listings(n - 1), g \in {10, 40} }

\* select=updated_at&order=updated_at.desc&limit=1; null on an empty table
getLastUpdatedAt(store, upstream) ==
    IF store = {} THEN Null
    ELSE LET seen == { upstream[i] : i \in store }
         IN CHOOSE t \in seen : \A u \in seen : u <= t

\* lastUpdated ? iso(new Date(lastUpdated.getTime() - 30000)) : null
updatedSince(lastUpdated) ==
    IF lastUpdated = Null THEN Null ELSE lastUpdated - 30

\* Mutant of buildInatUrl: order=desc, the newest records on the first page.
buildInatUrl_OrderDesc(upstream, page, perPage, since) ==
    LET first == Cardinality({ i \in DOMAIN upstream : upstream[i] < since }) + 1
        n == Len(upstream) - first + 1
        lo == (page - 1) * perPage + 1
        hi == Min(page * perPage, n)
    IN [k \in 1 .. Max(0, hi - lo + 1) |-> Len(upstream) - (lo + k - 1) + 1]

\* The ids of the page the URL asks for: the records with updated_at not
\* before updated_since, order_by=updated_at, order=asc, page, per_page.
buildInatUrl(upstream, page, perPage, since) ==
    LET first == Cardinality({ i \in DOMAIN upstream : upstream[i] < since }) + 1
        n == Len(upstream) - first + 1
        lo == (page - 1) * perPage + 1
        hi == Min(page * perPage, n)
    IN [k \in 1 .. Max(0, hi - lo + 1) |-> first + lo + k - 2]

\* main up to the loop: the resume point.  getLastUpdatedAt returns null
\* when its select fails.
main010Start ==
    /\ zPc = "start"
    /\ \E selectOk \in BOOLEAN :
          zSince' = IF selectOk THEN updatedSince(getLastUpdatedAt(zStore, zUpstream))
                    ELSE Null
    /\ zPage' = 1
    /\ zPc' = "fetch"
    /\ UNCHANGED <<zUpstream, zStore, zBatchSize, zRows, zI, zStack, zThrown, zRuns>>
    /\ UNCHANGED <<upsertVars, fetchVars, jobVars, replayVars, ledgerVars, pagerVars, scoreVars, mvpVars, exitVars, paceVars, bootVars, normVars, loginVars, scrollVars, assignVars>>

\* while (page <= MAX_PAGES): fetchJson of the page, which throws when its
\* retries are used up; if (!results.length) break
main010FetchPage ==
    /\ zPc = "fetch"
    /\ \E fetched \in BOOLEAN :
          LET results == buildInatUrl(zUpstream, zPage, ResumePerPage, zSince)
          IN /\ zPc' = IF ~fetched THEN "failed"
                       ELSE IF Len(results) = 0 THEN "done" ELSE "loop"
             /\ zRows' = IF fetched THEN results ELSE zRows
             /\ zI' = 0
    /\ UNCHANGED <<zUpstream, zStore, zBatchSize, zSince, zPage, zStack, zThrown, zRuns>>
    /\ UNCHANGED <<upsertVars, fetchVars, jobVars, replayVars, ledgerVars, pagerVars, scoreVars, mvpVars, exitVars, paceVars, bootVars, normVars, loginVars, scrollVars, assignVars>>

\* const chunk = rows.slice(i, i + UPSERT_BATCH_SIZE); await sbUpsert(...)
main010ChunkCall ==
    /\ zPc = "loop"
    /\ zI < Len(zRows)
    /\ zStack' = <<NewFrame(zI + 1, Min(zI + zBatchSize, Len(zRows)), zBatchSize)>>
    /\ zPc' = "call"
    /\ UNCHANGED <<zUpstream, zStore, zBatchSize, zSince, zPage, zRows, zI, zThrown, zRuns>>
    /\ UNCHANGED <<upsertVars, fetchVars, jobVars, replayVars, ledgerVars, pagerVars, scoreVars, mvpVars, exitVars, paceVars, bootVars, normVars, loginVars, scrollVars, assignVars>>

\* One POST of the running sbUpsert activation and what the code does with
\* its answer, up to the next POST.
main010UpsertRequest ==
    /\ zPc = "call"
    /\ \E r \in WriteResponses :
        /\ LET f == Top(zStack)
               n == sbStep(zStack, r, {})
           IN /\ zStore' = IF ResOk(r)
                           THEN zStore \cup { zRows[k] : k \in f.lo .. f.hi }
                           ELSE zStore
              /\ zStack' = n.stack
              /\ zThrown' = zThrown \cup { <<t[1], t[2], t[3]>> : t \in n.thrown }
              /\ zPc' = CASE n.outcome = "returned" -> "loop"
                          [] n.outcome = "thrown" -> "failed"
                          [] OTHER -> "call"
              /\ zI' = IF n.outcome = "returned" THEN zI + zBatchSize ELSE zI
    /\ UNCHANGED <<zUpstream, zBatchSize, zSince, zPage, zRows, zRuns>>
    /\ UNCHANGED <<upsertVars, fetchVars, jobVars, replayVars, ledgerVars, pagerVars, scoreVars, mvpVars, exitVars, paceVars, bootVars, normVars, loginVars, scrollVars, assignVars>>

\* The chunk loop ends: if (results.length < PER_PAGE) break; page++
main010ChunkLoopEnd ==
    /\ zPc = "loop"
    /\ zI >= Len(zRows)
    /\ IF Len(zRows) < ResumePerPage \/ zPage + 1 > PAGE_CAP
       THEN zPc' = "done" /\ zPage' = zPage
       ELSE zPc' = "fetch" /\ zPage' = zPage + 1
    /\ UNCHANGED <<zUpstream, zStore, zBatchSize, zSince, zRows, zI, zStack, zThrown, zRuns>>
    /\ UNCHANGED <<upsertVars, fetchVars, jobVars, replayVars, ledgerVars, pagerVars, scoreVars, mvpVars, exitVars, paceVars, bootVars, normVars, loginVars, scrollVars, assignVars>>

\* The next scheduled process starts on the store the last one left.
main010NextRun ==
    /\ zPc \in {"done", "failed"}
    /\ zRuns < MaxResumeRuns
    /\ zRuns' = zRuns + 1
    /\ zPc' = "start"
    /\ zSince' = Null /\ zPage' = 0 /\ zRows' = <<>> /\ zI' = 0
    /\ zStack' = <<>> /\ zThrown' = {}
    /\ UNCHANGED <<zUpstream, zStore, zBatchSize>>
    /\ UNCHANGED <<upsertVars, fetchVars, jobVars, replayVars, ledgerVars, pagerVars, scoreVars, mvpVars, exitVars, paceVars, bootVars, normVars, loginVars, scrollVars, assignVars>>

InitResume ==
    /\ zUpstream \in Listings(MaxResumeRecords)
    /\ zStore = {}
    \* UPSERT_BATCH_SIZE: below the page size, and above MIN_BATCH_SIZE
    /\ zBatchSize \in {2, 20}
    /\ zSince = Null /\ zPage = 0 /\ zRows = <<>> /\ zI = 0
    /\ zStack = <<>> /\ zThrown = {}
    /\ zRuns = 1
    /\ zPc = "start"
    /\ UpsertIdle /\ FetchIdle /\ JobIdle /\ ReplayIdle /\ LedgerIdle /\ PagerIdle /\ ScoreIdle /\ MvpIdle /\ ExitIdle /\ PaceIdle /\ BootIdle /\ NormIdle /\ LoginIdle /\ ScrollIdle /\ AssignIdle

NextResume ==
    \/ main010Start
    \/ main010FetchPage
    \/ main010ChunkCall
    \/ main010UpsertRequest
    \/ main010ChunkLoopEnd
    \/ main010NextRun

SpecResume == InitResume /\ [][NextResume]_vars

\* C33: when a run of main of unnamed/part_010 has failed, at a page, at a
\* chunk or inside a bisected half, every upstream record whose updated_at
\* is more than 30 seconds below the greatest updated_at in the store, that
\* is below the point the next run resumes from, is in the store.
C33_NothingMissingBelowResumePoint ==
    zPc = "failed" =>
        LET next == updatedSince(getLastUpdatedAt(zStore, zUpstream))
        IN \A i \in DOMAIN zUpstream : zUpstream[i] < next => i \in zStore

\* A second run failed inside a bisected half, with rows written before the
\* failure, records below the next resume point and records still missing.
C33_Witness ==
    /\ zPc = "failed" /\ zRuns = 2
    /\ \E t \in zThrown : t[3] = MIN_BATCH_SIZE /\ t[2] - t[1] + 1 < ResumePerPage
    /\ \E i \in DOMAIN zUpstream : i \notin zStore
    /\ \E i \in DOMAIN zUpstream :
          zUpstream[i] < updatedSince(getLastUpdatedAt(zStore, zUpstream))
\* ======================================================================
\* iNatScroll of unnamed/part_004: scrolling by id_below over the listing
\* order=desc, order_by=id of buildBaseParams, while observations are
\* created and removed upstream.
\* ======================================================================

\* Bounds of the model.
ScrollPerPage == 2      \* scaled from per_page = 100
MaxScrollObs == 3       \* observations upstream at the start
MaxScrollCreates == 2   \* observations created while scrolling
MaxScrollRequests == 5  \* requests of one scroll

\* The greatest n ids of a set, in descending order.
RECURSIVE TopDesc(_, _)
TopDesc(ids, n) ==
    IF n = 0 \/ ids = {} THEN <<>>
    ELSE LET top == CHOOSE i \in ids : \A j \in ids : j <= i
         IN <<top>> \o TopDesc(ids \ {top}, n - 1)

\* The answer to a request: order=desc, order_by=id, per_page, and id_below
\* when the request carries it.
ScrollResults(upstream, idBelow) ==
    TopDesc({ i \in upstream : idBelow = 0 \/ i < idBelow }, ScrollPerPage)

\* Mutant of NextIdBelow: the cursor is taken from the head of the page.
NextIdBelow_FirstOfPage(results) == results[1]

\* idBelow = results[results.length - 1].id
NextIdBelow(results) == results[Len(results)]

\* One turn of while (true): the request, and what follows its answer up to
\* the next request.  fetchJsonWithRetries throws when its retries are used up.
iNatScrollTurn ==
    /\ sPc = "scrolling"
    /\ Len(sSent) < MaxScrollRequests
    \* if (idBelow) params.set("id_below", String(idBelow))
    /\ sSent' = Append(sSent, sIdBelow)
    /\ \E fetched \in BOOLEAN :
          LET results == ScrollResults(sUpstream, sIdBelow)
          IN IF ~fetched
             THEN sPc' = "failed" /\ UNCHANGED <<sPages, sIdBelow>>
             ELSE /\ sPages' = Append(sPages, results)
                  /\ IF Len(results) = 0
                     THEN sPc' = "done" /\ UNCHANGED sIdBelow
                     ELSE sPc' = "scrolling" /\ sIdBelow' = NextIdBelow(results)
    /\ UNCHANGED <<sUpstream, sNextId>>
    /\ UNCHANGED <<upsertVars, fetchVars, jobVars, replayVars, ledgerVars, pagerVars, scoreVars, mvpVars, exitVars, paceVars, bootVars, normVars, loginVars, resumeVars, assignVars>>

\* An observation is created upstream: it gets the next id.
UpstreamCreate ==
    /\ sPc = "scrolling"
    /\ sNextId <= MaxScrollObs + MaxScrollCreates
    /\ sUpstream' = sUpstream \cup {sNextId}
    /\ sNextId' = sNextId + 1
    /\ UNCHANGED <<sIdBelow, sSent, sPages, sPc>>
    /\ UNCHANGED <<upsertVars, fetchVars, jobVars, replayVars, ledgerVars, pagerVars, scoreVars, mvpVars, exitVars, paceVars, bootVars, normVars, loginVars, resumeVars, assignVars>>

\* An observation is deleted upstream, or edited out of the filter.
UpstreamDrop ==
    /\ sPc = "scrolling"
    /\ \E i \in sUpstream : sUpstream' = sUpstream \ {i}
    /\ UNCHANGED <<sNextId, sIdBelow, sSent, sPages, sPc>>
    /\ UNCHANGED <<upsertVars, fetchVars, jobVars, replayVars, ledgerVars, pagerVars, scoreVars, mvpVars, exitVars, paceVars, bootVars, normVars, loginVars, resumeVars, assignVars>>

InitScroll ==
    /\ \E n \in 0 .. MaxScrollObs : sUpstream = 1 .. n
    /\ sNextId = MaxScrollObs + 1
    /\ sIdBelow = 0
    /\ sSent = <<>>
    /\ sPages = <<>>
    /\ sPc = "scrolling"
    /\ UpsertIdle /\ FetchIdle /\ JobIdle /\ ReplayIdle /\ LedgerIdle /\ PagerIdle /\ ScoreIdle /\ MvpIdle /\ ExitIdle /\ PaceIdle /\ BootIdle /\ NormIdle /\ LoginIdle /\ ResumeIdle /\ AssignIdle

NextScroll ==
    \/ iNatScrollTurn
    \/ UpstreamCreate
    \/ UpstreamDrop

SpecScroll == InitScroll /\ [][NextScroll]_vars

\* C35: every request of iNatScroll after the first carries as id_below the
\* last id of the page before it, no observation is yielded twice, also
\* when observations are created while it scrolls, and the scroll has
\* ended exactly when it has received an empty page, which is its last.
C35_CursorScrollYieldsOnce ==
    /\ \A k \in DOMAIN sSent :
          k > 1 => sSent[k] = sPages[k - 1][Len(sPages[k - 1])]
    /\ \A p, q \in DOMAIN sPages : \A a \in DOMAIN sPages[p], b \in DOMAIN sPages[q] :
          sPages[p][a] = sPages[q][b] => (p = q /\ a = b)
    /\ \A p \in DOMAIN sPages : Len(sPages[p]) = 0 => (p = Len(sPages) /\ sPc = "done")
    /\ sPc = "done" => (Len(sPages) > 0 /\ Len(sPages[Len(sPages)]) = 0)

\* A scroll that ended after two full pages, with an observation created
\* upstream after its first request.
C35_Witness ==
    /\ sPc = "done"
    /\ Len(sPages) = 3 /\ Len(sPages[1]) = ScrollPerPage /\ Len(sPages[2]) > 0
    /\ \E i \in sUpstream : i > sPages[1][1]
\* ======================================================================
\* processAssignment of ingest.mjs (lines 289-328 and 721-778): its awaited
\* calls in order.  An awaited call returns, and processAssignment moves to
\* its next await, or throws, which ends processAssignment.
\* ======================================================================

\* Bounds of the model.
MaxAssignPages == 2     \* non-empty pages of the participants' observations

\* Mutant of NoUserLogins: the assignment is processed whatever the
\* identities are.
NoUserLogins_Unchecked(ids) == ids \notin {"none", "idOnly", "login"}

\* const userLogins = Array.from(idsMap.login.keys()); if (!userLogins.length)
\* return: no identity row carries an external_username.
NoUserLogins(ids) == ids \in {"none", "idOnly"}

\* const { a, d1, d2, ids } = await readAssignment(ASSIGN), the identity
\* maps, and the return when there is no username.
ReadAssignment ==
    /\ paPc = "readAssignment"
    /\ \E threw \in BOOLEAN :
          IF threw THEN paPc' = "thrown" /\ UNCHANGED paLog
          ELSE paPc' = (IF NoUserLogins(paIds) THEN "returned" ELSE "inatObsPager") /\ paLog' = Append(paLog, "readAssignment")
    /\ UNCHANGED <<paVariant, paIds, paPagesLeft>>
    /\ UNCHANGED <<upsertVars, fetchVars, jobVars, replayVars, ledgerVars, pagerVars, scoreVars, mvpVars, exitVars, paceVars, bootVars, normVars, loginVars, resumeVars, scrollVars>>

\* for await (const page of inatObsPager(params)): the request of the next
\* page; an empty page ends the loop.
InatObsPagerNext ==
    /\ paPc = "inatObsPager"
    /\ \E threw \in BOOLEAN :
          IF threw THEN paPc' = "thrown" /\ UNCHANGED <<paLog, paPagesLeft>>
          ELSE IF paPagesLeft = 0
          THEN paPc' = "rankNovelty" /\ paLog' = Append(paLog, "emptyPage")
               /\ UNCHANGED paPagesLeft
          ELSE paPc' = "upsertObservations" /\ paLog' = Append(paLog, "page")
               /\ paPagesLeft' = paPagesLeft - 1
    /\ UNCHANGED <<paVariant, paIds>>
    /\ UNCHANGED <<upsertVars, fetchVars, jobVars, replayVars, ledgerVars, pagerVars, scoreVars, mvpVars, exitVars, paceVars, bootVars, normVars, loginVars, resumeVars, scrollVars>>

\* await upsert("observations", mapped, "inat_obs_id")
UpsertObservationsOfPage ==
    /\ paPc = "upsertObservations"
    /\ \E threw \in BOOLEAN :
          IF threw THEN paPc' = "thrown" /\ UNCHANGED paLog
          ELSE paPc' = "upsertLinks" /\ paLog' = Append(paLog, "upsertObservations")
    /\ UNCHANGED <<paVariant, paIds, paPagesLeft>>
    /\ UNCHANGED <<upsertVars, fetchVars, jobVars, replayVars, ledgerVars, pagerVars, scoreVars, mvpVars, exitVars, paceVars, bootVars, normVars, loginVars, resumeVars, scrollVars>>

\* await upsert("assignment_observations", mapLinks(...), ...); await sleep
UpsertLinksOfPage ==
    /\ paPc = "upsertLinks"
    /\ \E threw \in BOOLEAN :
          IF threw THEN paPc' = "thrown" /\ UNCHANGED paLog
          ELSE paPc' = "inatObsPager" /\ paLog' = Append(paLog, "upsertLinks")
    /\ UNCHANGED <<paVariant, paIds, paPagesLeft>>
    /\ UNCHANGED <<upsertVars, fetchVars, jobVars, replayVars, ledgerVars, pagerVars, scoreVars, mvpVars, exitVars, paceVars, bootVars, normVars, loginVars, resumeVars, scrollVars>>

\* await rankNoveltyForAssignment(ASSIGN) / await rankNovelty(ASSIGN)
RankNoveltyCall ==
    /\ paPc = "rankNovelty"
    /\ \E threw \in BOOLEAN :
          IF threw THEN paPc' = "thrown" /\ UNCHANGED paLog
          ELSE paPc' = "loadJoined" /\ paLog' = Append(paLog, "rankNovelty")
    /\ UNCHANGED <<paVariant, paIds, paPagesLeft>>
    /\ UNCHANGED <<upsertVars, fetchVars, jobVars, replayVars, ledgerVars, pagerVars, scoreVars, mvpVars, exitVars, paceVars, bootVars, normVars, loginVars, resumeVars, scrollVars>>

\* const rows = await loadJoined(ASSIGN); const byStudent = scoreAll(rows, rubric)
LoadJoinedCall ==
    /\ paPc = "loadJoined"
    /\ \E threw \in BOOLEAN :
          IF threw THEN paPc' = "thrown" /\ UNCHANGED paLog
          ELSE paPc' = "writeScores" /\ paLog' = Append(paLog, "loadJoined")
    /\ UNCHANGED <<paVariant, paIds, paPagesLeft>>
    /\ UNCHANGED <<upsertVars, fetchVars, jobVars, replayVars, ledgerVars, pagerVars, scoreVars, mvpVars, exitVars, paceVars, bootVars, normVars, loginVars, resumeVars, scrollVars>>

\* await writeScores(ASSIGN, byStudent, ...)
WriteScoresCall ==
    /\ paPc = "writeScores"
    /\ \E threw \in BOOLEAN :
          IF threw THEN paPc' = "thrown" /\ UNCHANGED paLog
          ELSE paPc' = "returned" /\ paLog' = Append(paLog, "writeScores")
    /\ UNCHANGED <<paVariant, paIds, paPagesLeft>>
    /\ UNCHANGED <<upsertVars, fetchVars, jobVars, replayVars, ledgerVars, pagerVars, scoreVars, mvpVars, exitVars, paceVars, bootVars, normVars, loginVars, resumeVars, scrollVars>>

InitAssign ==
    /\ paVariant \in {"processAssignment_289", "processAssignment_721"}
    /\ paIds \in {"none", "idOnly", "login"}
    /\ paPagesLeft \in 0 .. MaxAssignPages
    /\ paLog = <<>>
    /\ paPc = "readAssignment"
    /\ UpsertIdle /\ FetchIdle /\ JobIdle /\ ReplayIdle /\ LedgerIdle /\ PagerIdle /\ ScoreIdle /\ MvpIdle /\ ExitIdle /\ PaceIdle /\ BootIdle /\ NormIdle /\ LoginIdle /\ ResumeIdle /\ ScrollIdle

NextAssign ==
    \/ ReadAssignment
    \/ InatObsPagerNext
    \/ UpsertObservationsOfPage
    \/ UpsertLinksOfPage
    \/ RankNoveltyCall
    \/ LoadJoinedCall
    \/ WriteScoresCall

SpecAssign == InitAssign /\ [][NextAssign]_vars

\* C37: in processAssignment the novelty ranking is called only when every
\* fetched page has had its observations and then its links upserted and
\* no page is fetched after it, the joined rows are read only after the
\* ranking returned, and the score run is written after that, as the last
\* call; with no participant identities no page is requested and no score
\* run is written.
C37_RankAfterUpsertsScoreLast ==
    LET Count(call, k) == Cardinality({ j \in 1 .. k : paLog[j] = call })
        Before(call, k) == \E j \in 1 .. (k - 1) : paLog[j] = call
    IN  /\ \A k \in DOMAIN paLog :
              /\ paLog[k] = "rankNovelty" =>
                    /\ Count("page", k) = Count("upsertObservations", k)
                    /\ Count("page", k) = Count("upsertLinks", k)
                    /\ Count("page", Len(paLog)) = Count("page", k)
                    /\ Count("upsertObservations", Len(paLog)) = Count("upsertObservations", k)
                    /\ Count("upsertLinks", Len(paLog)) = Count("upsertLinks", k)
              /\ paLog[k] = "upsertLinks" => paLog[k - 1] = "upsertObservations"
              /\ paLog[k] = "upsertObservations" => paLog[k - 1] = "page"
              /\ paLog[k] = "loadJoined" => Before("rankNovelty", k)
              /\ paLog[k] = "writeScores" => (Before("loadJoined", k) /\ k = Len(paLog))
        /\ paPc = "rankNovelty" =>
              /\ Count("page", Len(paLog)) = Count("upsertObservations", Len(paLog))
              /\ Count("page", Len(paLog)) = Count("upsertLinks", Len(paLog))
        /\ paIds = "none" =>
              \A k \in DOMAIN paLog : paLog[k] \notin {"page", "emptyPage", "writeScores"}
        /\ (paIds = "none" /\ paPc \notin {"readAssignment", "thrown"}) => paPc = "returned"

\* An assignment with two pages was processed to the end.
C37_Witness ==
    /\ paPc = "returned" /\ paIds = "login"
    /\ Cardinality({ j \in DOMAIN paLog : paLog[j] = "upsertLinks" }) = 2
    /\ paLog[Len(paLog)] = "writeScores"

====
